---------------------------- MODULE Spec2Model ----------------------------
(***************************************************************************)
(* Model of the secure CRUD list manager: the security utilities           *)
(* (utils/security: validateInput, sanitizeHtml, isValidContent,           *)
(* RateLimiter, generateSecureId, validateLength, validateForContext) and  *)
(* the handlers of App.tsx that call them.                                 *)
(*                                                                         *)
(* A JavaScript string is a sequence of one-character strings.             *)
(***************************************************************************)
EXTENDS Integers, Sequences, FiniteSets, TLC

(***************************************************************************)
(* Characters and character classes of the regular expressions.            *)
(***************************************************************************)
UpperToLower ==
    [A |-> "a", B |-> "b", C |-> "c", D |-> "d", E |-> "e", F |-> "f",
     G |-> "g", H |-> "h", I |-> "i", J |-> "j", K |-> "k", L |-> "l",
     M |-> "m", N |-> "n", O |-> "o", P |-> "p", Q |-> "q", R |-> "r",
     S |-> "s", T |-> "t", U |-> "u", V |-> "v", W |-> "w", X |-> "x",
     Y |-> "y", Z |-> "z"]

UpperCase == DOMAIN UpperToLower

LowerCase == {UpperToLower[c] : c \in UpperCase}

Digits == {"0", "1", "2", "3", "4", "5", "6", "7", "8", "9"}

\* U+000B, the vertical tab
VerticalTab == ""

\* \s of a regular expression, and the characters String.prototype.trim strips,
\* that a string of the model can hold: the strings are ASCII, so the white
\* space beyond U+007F (U+00A0, U+1680, U+2000 to U+200A, U+2028, U+2029,
\* U+202F, U+205F, U+3000, U+FEFF) is no character of theirs
WhiteSpace == {" ", "\t", "\n", "\r", "\f", VerticalTab}

\* the canonical form the i flag compares characters in
Lower(c) == IF c \in UpperCase THEN UpperToLower[c] ELSE c

\* \w
IsWordChar(c) == c \in LowerCase \cup UpperCase \cup Digits \cup {"_"}

\* whether position p of s holds a word character (no character outside s)
IsWordAt(s, p) == p >= 1 /\ p <= Len(s) /\ IsWordChar(s[p])

\* \b between positions p - 1 and p of s
WordBoundary(s, p) == IsWordAt(s, p - 1) # IsWordAt(s, p)

\* s in the canonical form of the i flag
ToLowerCase(s) == [i \in 1..Len(s) |-> Lower(s[i])]

\* the literal lit matches s at position i
MatchAt(s, i, lit) ==
    /\ i >= 1
    /\ i + Len(lit) - 1 <= Len(s)
    /\ s[i] = lit[1]
    /\ SubSeq(s, i, i + Len(lit) - 1) = lit

\* /lit/g.test(s)
Contains(s, lit) == \E i \in 1..(Len(s) - Len(lit) + 1) : MatchAt(s, i, lit)

\* /lit\s*c/g.test(s): the literal, any run of white space, the character c
ContainsThenWsThen(s, lit, c) ==
    \E i \in 1..(Len(s) - Len(lit) + 1) :
        /\ MatchAt(s, i, lit)
        /\ \E b \in (i + Len(lit))..Len(s) :
              /\ s[b] = c
              /\ \A p \in (i + Len(lit))..(b - 1) : s[p] \in WhiteSpace

(***************************************************************************)
(* String.prototype.trim, substring.                                       *)
(***************************************************************************)
\* the first position of s that holds no white space, Len(s) + 1 if there is none
FirstNonWhiteSpace(s) ==
    CHOOSE i \in 1..(Len(s) + 1) :
        /\ \A j \in 1..(i - 1) : s[j] \in WhiteSpace
        /\ (i = Len(s) + 1 \/ s[i] \notin WhiteSpace)

\* the last position of s that holds no white space, 0 if there is none
LastNonWhiteSpace(s) ==
    CHOOSE i \in 0..Len(s) :
        /\ \A j \in (i + 1)..Len(s) : s[j] \in WhiteSpace
        /\ (i = 0 \/ s[i] \notin WhiteSpace)

Trim(s) == SubSeq(s, FirstNonWhiteSpace(s), LastNonWhiteSpace(s))

Min(a, b) == IF a <= b THEN a ELSE b

\* s.substring(from, to) for 0 <= from <= to (indices count from 0, to is excluded)
Substring(s, from, to) == SubSeq(s, Min(from, Len(s)) + 1, Min(to, Len(s)))

(***************************************************************************)
(* validateInput: the malicious patterns.                                  *)
(***************************************************************************)
LtScript == <<"<", "s", "c", "r", "i", "p", "t">>

LtSlashScriptGt == <<"<", "/", "s", "c", "r", "i", "p", "t", ">">>

JavascriptColon == <<"j", "a", "v", "a", "s", "c", "r", "i", "p", "t", ":">>

VbscriptColon == <<"v", "b", "s", "c", "r", "i", "p", "t", ":">>

\* /<script\b[^<]*(?:(?!<\/script>)<[^<]*)*<\/script>/gi
ScriptTagPattern(s) ==
    \E i \in 1..Len(s) :
        /\ MatchAt(s, i, LtScript)
        /\ WordBoundary(s, i + Len(LtScript))
        /\ \E j \in (i + Len(LtScript))..Len(s) :
              /\ MatchAt(s, j, LtSlashScriptGt)
              /\ \A p \in (i + Len(LtScript))..(j - 1) :
                    s[p] = "<" => ~MatchAt(s, p, LtSlashScriptGt)

\* /on\w+\s*=/gi
EventHandlerPattern(s) ==
    \E i \in 1..Len(s) :
        /\ MatchAt(s, i, <<"o", "n">>)
        /\ \E a \in (i + 2)..Len(s) :
              /\ \A p \in (i + 2)..a : IsWordChar(s[p])
              /\ \E b \in (a + 1)..Len(s) :
                    /\ s[b] = "="
                    /\ \A p \in (a + 1)..(b - 1) : s[p] \in WhiteSpace

\* the literal patterns of maliciousPatterns
MaliciousLiterals ==
    { JavascriptColon,
      <<"d", "a", "t", "a", ":", "t", "e", "x", "t", "/", "h", "t", "m", "l">>,
      VbscriptColon,
      <<"<", "i", "f", "r", "a", "m", "e">>,
      <<"<", "o", "b", "j", "e", "c", "t">>,
      <<"<", "e", "m", "b", "e", "d">>,
      <<"<", "l", "i", "n", "k">>,
      <<"<", "m", "e", "t", "a">>,
      <<"<", "s", "t", "y", "l", "e">>,
      <<"@", "i", "m", "p", "o", "r", "t">> }

\* maliciousPatterns.some(pattern => pattern.test(input)), every pattern having the
\* i flag: s is the input in lower case
MaliciousPatterns(s) ==
    \/ ScriptTagPattern(s)
    \/ EventHandlerPattern(s)
    \/ \E lit \in MaliciousLiterals : Contains(s, lit)
    \/ ContainsThenWsThen(s, <<"e", "x", "p", "r", "e", "s", "s", "i", "o", "n">>, "(")
    \/ ContainsThenWsThen(s, <<"u", "r", "l">>, "(")

\* the length limit of validateInput
ValidateInputMaxLength == 1000

validateInput(input) ==
    IF input = <<>> \/ Trim(input) = <<>> THEN FALSE
    ELSE IF Len(input) > ValidateInputMaxLength THEN FALSE
    ELSE ~MaliciousPatterns(ToLowerCase(input))

(***************************************************************************)
(* sanitizeHtml: six global replacements, one after the other.             *)
(***************************************************************************)
RECURSIVE ReplaceRange(_, _, _, _, _)
\* positions lo..hi of s with every c replaced by rep
ReplaceRange(s, lo, hi, c, rep) ==
    IF lo > hi THEN <<>>
    ELSE IF lo = hi THEN (IF s[lo] = c THEN rep ELSE <<s[lo]>>)
    ELSE LET mid == (lo + hi) \div 2
         IN  ReplaceRange(s, lo, mid, c, rep) \o ReplaceRange(s, mid + 1, hi, c, rep)

\* s.replace(/c/g, rep)
ReplaceAll(s, c, rep) == ReplaceRange(s, 1, Len(s), c, rep)

EntAmp == <<"&", "a", "m", "p", ";">>

EntLt == <<"&", "l", "t", ";">>

EntGt == <<"&", "g", "t", ";">>

EntQuot == <<"&", "q", "u", "o", "t", ";">>

EntApos == <<"&", "#", "x", "2", "7", ";">>

EntSlash == <<"&", "#", "x", "2", "F", ";">>

sanitizeHtmlAmpersandLast(input) ==
    ReplaceAll(
      ReplaceAll(
        ReplaceAll(
          ReplaceAll(
            ReplaceAll(
              ReplaceAll(input, "<", EntLt),
              ">", EntGt),
            "\"", EntQuot),
          "'", EntApos),
        "/", EntSlash),
      "&", EntAmp)

sanitizeHtml(input) ==
    ReplaceAll(
      ReplaceAll(
        ReplaceAll(
          ReplaceAll(
            ReplaceAll(
              ReplaceAll(input, "&", EntAmp),
              "<", EntLt),
            ">", EntGt),
          "\"", EntQuot),
        "'", EntApos),
      "/", EntSlash)

(***************************************************************************)
(* isValidContent: the SQL and XSS patterns, tested on the trimmed input.  *)
(***************************************************************************)
SqlKeywords ==
    { <<"s", "e", "l", "e", "c", "t">>, <<"i", "n", "s", "e", "r", "t">>,
      <<"u", "p", "d", "a", "t", "e">>, <<"d", "e", "l", "e", "t", "e">>,
      <<"d", "r", "o", "p">>, <<"c", "r", "e", "a", "t", "e">>,
      <<"a", "l", "t", "e", "r">>, <<"e", "x", "e", "c">>,
      <<"u", "n", "i", "o", "n">>, <<"s", "c", "r", "i", "p", "t">> }

\* /(\b(SELECT|INSERT|UPDATE|DELETE|DROP|CREATE|ALTER|EXEC|UNION|SCRIPT)\b)/gi
SqlKeywordPattern(s) ==
    \E kw \in SqlKeywords : \E i \in 1..(Len(s) - Len(kw) + 1) :
        /\ MatchAt(s, i, kw)
        /\ WordBoundary(s, i)
        /\ WordBoundary(s, i + Len(kw))

SqlPunctuation ==
    { <<"-", "-">>, <<"/", "*">>, <<"*", "/">>, <<";">>, <<"'">>, <<"\"">>,
      <<"|">>, <<"&">>, <<"+">> }

\* /(--|\/\*|\*\/|;|'|"|\||&|\+)/g
SqlPunctuationPattern(s) == \E lit \in SqlPunctuation : Contains(s, lit)

XssLiterals ==
    { JavascriptColon, VbscriptColon,
      <<"o", "n", "l", "o", "a", "d">>, <<"o", "n", "e", "r", "r", "o", "r">>,
      <<"o", "n", "c", "l", "i", "c", "k">>,
      <<"o", "n", "m", "o", "u", "s", "e", "o", "v", "e", "r">>,
      LtScript, LtSlashScriptGt,
      <<"e", "v", "a", "l", "(">>, <<"a", "l", "e", "r", "t", "(">>,
      <<"c", "o", "n", "f", "i", "r", "m", "(">>,
      <<"p", "r", "o", "m", "p", "t", "(">> }

\* sqlPatterns[1] has no i flag and no letters; every other pattern has the flag
isValidContent(content) ==
    LET trimmed == Trim(content)
        lowered == ToLowerCase(trimmed)
        hasSqlInjection ==
            SqlKeywordPattern(lowered) \/ SqlPunctuationPattern(trimmed)
        hasXss == \E lit \in XssLiterals : Contains(lowered, lit)
    IN  ~hasSqlInjection /\ ~hasXss

(***************************************************************************)
(* RateLimiter.  The attempts map is a function from the keys it holds to  *)
(* their sequences of timestamps.                                          *)
(***************************************************************************)
\* constructor(maxAttempts = 10, windowMs = 60000); rateLimiter = new RateLimiter()
MaxAttempts == 10

WindowMs == 60000

\* this.attempts.get(key) || []
AttemptsOf(attempts, key) == IF key \in DOMAIN attempts THEN attempts[key] ELSE <<>>

\* attempts.filter(time => now - time < this.windowMs)
ValidAttempts(attempts, key, t) ==
    SelectSeq(AttemptsOf(attempts, key), LAMBDA time : t - time < WindowMs)

\* this.attempts.set(key, value)
MapSet(attempts, key, value) ==
    [k \in DOMAIN attempts \cup {key} |-> IF k = key THEN value ELSE attempts[k]]

isAllowedOffByOne(attempts, key, t) ==
    LET validAttempts == ValidAttempts(attempts, key, t)
    IN  IF Len(validAttempts) > MaxAttempts
        THEN [allowed |-> FALSE, attempts |-> attempts]
        ELSE [allowed |-> TRUE, attempts |-> MapSet(attempts, key, Append(validAttempts, t))]

isAllowedNoPrune(attempts, key, t) ==
    LET all == AttemptsOf(attempts, key)
    IN  IF Len(all) >= MaxAttempts
        THEN [allowed |-> FALSE, attempts |-> attempts]
        ELSE [allowed |-> TRUE, attempts |-> MapSet(attempts, key, Append(all, t))]

isAllowedSharedKey(attempts, key, t) ==
    LET validAttempts == ValidAttempts(attempts, key, t)
    IN  IF Len(validAttempts) >= MaxAttempts
        THEN [allowed |-> FALSE, attempts |-> attempts]
        ELSE [allowed |-> TRUE,
              attempts |-> [k \in DOMAIN attempts \cup {key} |-> Append(validAttempts, t)]]

\* isAllowed counting a timestamp that is exactly windowMs old
isAllowedInclusiveWindow(attempts, key, t) ==
    LET validAttempts ==
            SelectSeq(AttemptsOf(attempts, key), LAMBDA time : t - time <= WindowMs)
    IN  IF Len(validAttempts) >= MaxAttempts
        THEN [allowed |-> FALSE, attempts |-> attempts]
        ELSE [allowed |-> TRUE, attempts |-> MapSet(attempts, key, Append(validAttempts, t))]

\* isAllowed(key) at clock reading t: the answer and the map it leaves
isAllowed(attempts, key, t) ==
    LET validAttempts == ValidAttempts(attempts, key, t)
    IN  IF Len(validAttempts) >= MaxAttempts
        THEN [allowed |-> FALSE, attempts |-> attempts]
        ELSE [allowed |-> TRUE, attempts |-> MapSet(attempts, key, Append(validAttempts, t))]

\* reset(key): this.attempts.delete(key)
reset(attempts, key) == [k \in DOMAIN attempts \ {key} |-> attempts[k]]

(***************************************************************************)
(* generateSecureId.  A random fraction in [0, 1) is the sequence of its   *)
(* base-36 digits after the point (0 is the empty sequence); a clock       *)
(* reading is a natural number.                                            *)
(***************************************************************************)
Digit36 ==
    <<"0", "1", "2", "3", "4", "5", "6", "7", "8", "9", "a", "b", "c", "d",
      "e", "f", "g", "h", "i", "j", "k", "l", "m", "n", "o", "p", "q", "r",
      "s", "t", "u", "v", "w", "x", "y", "z">>

\* fraction.toString(36): "0" for 0, otherwise "0." and the digits
ToString36(fraction) ==
    IF fraction = <<>> THEN <<"0">>
    ELSE <<"0", ".">> \o [i \in 1..Len(fraction) |-> Digit36[fraction[i] + 1]]

RECURSIVE ToDecimal(_)
\* the decimal rendering of a natural number in a template literal
ToDecimal(n) ==
    IF n < 10 THEN <<Digit36[n + 1]>>
    ELSE ToDecimal(n \div 10) \o <<Digit36[(n % 10) + 1]>>

generateSecureId(timestamp, randomFraction, moreRandomFraction) ==
    LET random == Substring(ToString36(randomFraction), 2, 15)
        moreRandom == Substring(ToString36(moreRandomFraction), 2, 15)
    IN  ToDecimal(timestamp) \o <<"_">> \o random \o moreRandom

\* id.match(/^\d+_[a-z0-9]+$/)
MatchesIdFormat(id) ==
    \E u \in 2..(Len(id) - 1) :
        /\ id[u] = "_"
        /\ \A p \in 1..(u - 1) : id[p] \in Digits
        /\ \A p \in (u + 1)..Len(id) : id[p] \in LowerCase \cup Digits

(***************************************************************************)
(* new URL(input), with no base: the URL parser of the platform.  It       *)
(* answers whether the input parses and the protocol of the URL.  The      *)
(* strings of the model hold the characters U+0001 to U+007F.  A domain    *)
(* that needs the IDNA tables of the platform (a label that starts with    *)
(* xn--, or a percent-encoded byte beyond 0x7F) has no value here: CASE    *)
(* has no arm for it.                                                      *)
(***************************************************************************)
\* U+0060, which no string literal can hold: a name, not a character
GraveAccent == "U+0060"

\* the characters U+0001 to U+007F, each at its code point
Ascii ==
    <<
      "", "", "", "", "", "", "", "",
      "\t", "\n", "", "\f", "\r", "", "", "",
      "", "", "", "", "", "", "", "",
      "", "", "", "", "", "", "", " ",
      "!", "\"", "#", "$", "%", "&", "'", "(",
      ")", "*", "+", ",", "-", ".", "/", "0",
      "1", "2", "3", "4", "5", "6", "7", "8",
      "9", ":", ";", "<", "=", ">", "?", "@",
      "A", "B", "C", "D", "E", "F", "G", "H",
      "I", "J", "K", "L", "M", "N", "O", "P",
      "Q", "R", "S", "T", "U", "V", "W", "X",
      "Y", "Z", "[", "\\", "]", "^", "_", GraveAccent,
      "a", "b", "c", "d", "e", "f", "g", "h",
      "i", "j", "k", "l", "m", "n", "o", "p",
      "q", "r", "s", "t", "u", "v", "w", "x",
      "y", "z", "{", "|", "}", "~", "" >>

\* C0 control or space: stripped from both ends of the input
C0ControlOrSpace == {Ascii[b] : b \in 1..32}

\* ASCII tab or newline: removed wherever it stands
TabOrNewline == {"\t", "\n", "\r"}

Least(S) == CHOOSE p \in S : \A q \in S : p <= q

Greatest(S) == CHOOSE p \in S : \A q \in S : p >= q

StripC0ControlOrSpace(s) ==
    LET keep == {p \in 1..Len(s) : s[p] \notin C0ControlOrSpace}
    IN  IF keep = {} THEN <<>> ELSE SubSeq(s, Least(keep), Greatest(keep))

RemoveTabOrNewline(s) == SelectSeq(s, LAMBDA c : c \notin TabOrNewline)

SchemeChars == LowerCase \cup UpperCase \cup Digits \cup {"+", "-", "."}

\* the position of the colon that ends the scheme of s, 0 if s has no scheme
SchemeEnd(s) ==
    IF s = <<>> \/ s[1] \notin LowerCase \cup UpperCase THEN 0
    ELSE LET stops == {p \in 1..Len(s) : s[p] \notin SchemeChars}
         IN  IF stops = {} THEN 0
             ELSE IF s[Least(stops)] = ":" THEN Least(stops) ELSE 0

Http == <<"h", "t", "t", "p">>

Https == <<"h", "t", "t", "p", "s">>

File == <<"f", "i", "l", "e">>

\* the special schemes but file
SpecialSchemes == {Http, Https, <<"f", "t", "p">>, <<"w", "s">>, <<"w", "s", "s">>}

ForbiddenHostCodePoints ==
    {" ", "\t", "\n", "\r", "#", "/", ":", "<", ">", "?", "@", "[", "\\", "]", "^", "|"}

\* U+0000, which a percent-decoded host can hold: a name, not a character
Nul == "U+0000"

\* a byte beyond 0x7F of a percent-decoded host: a name, not a character
NonAscii == "U+0080.."

\* the forbidden host code points, the C0 controls, % and U+007F
ForbiddenDomainCodePoints ==
    ForbiddenHostCodePoints \cup {Ascii[b] : b \in 1..31} \cup {Nul, "%", Ascii[127]}

HexDigits == Digits \cup {"a", "b", "c", "d", "e", "f", "A", "B", "C", "D", "E", "F"}

DigitValue(c) == CHOOSE n \in 0..35 : Digit36[n + 1] = Lower(c)

\* the positions of host where a % stands before two hexadecimal digits
PercentEscapes(host) ==
    {p \in 1..(Len(host) - 2) :
        host[p] = "%" /\ host[p + 1] \in HexDigits /\ host[p + 2] \in HexDigits}

\* the character of a decoded byte
ByteToChar(byte) ==
    CASE byte = 0 -> Nul
      [] byte \in 1..127 -> Ascii[byte]
      [] OTHER -> NonAscii

\* percent-decode host: every escape becomes its byte
PercentDecode(host) ==
    LET escapes == PercentEscapes(host)
        kept == {p \in 1..Len(host) : (p - 1) \notin escapes /\ (p - 2) \notin escapes}
        at(i) == CHOOSE p \in kept : Cardinality({q \in kept : q <= p}) = i
    IN  [i \in 1..Cardinality(kept) |->
            IF at(i) \in escapes
            THEN ByteToChar(16 * DigitValue(host[at(i) + 1]) + DigitValue(host[at(i) + 2]))
            ELSE host[at(i)]]

RECURSIVE Labels(_)
\* host split at its dots
Labels(host) ==
    LET dots == {p \in 1..Len(host) : host[p] = "."}
    IN  IF dots = {} THEN <<host>>
        ELSE <<SubSeq(host, 1, Least(dots) - 1)>>
                 \o Labels(SubSeq(host, Least(dots) + 1, Len(host)))

\* domain to ASCII needs no table: the domain is ASCII and no label of it
\* is Punycode
IdnaFree(domain) ==
    /\ \A p \in 1..Len(domain) : domain[p] # NonAscii
    /\ \A k \in 1..Len(Labels(domain)) :
          ~MatchAt(ToLowerCase(Labels(domain)[k]), 1, <<"x", "n", "-", "-">>)

\* the labels without the empty one a trailing dot leaves
Ipv4Parts(host) ==
    LET parts == Labels(host)
    IN  IF Len(parts) > 1 /\ parts[Len(parts)] = <<>>
        THEN SubSeq(parts, 1, Len(parts) - 1)
        ELSE parts

Ipv4Radix(part) ==
    IF Len(part) >= 2 /\ part[1] = "0" /\ part[2] \in {"x", "X"} THEN 16
    ELSE IF Len(part) >= 2 /\ part[1] = "0" THEN 8
    ELSE 10

Ipv4Digits(part) ==
    CASE Ipv4Radix(part) = 16 -> SubSeq(part, 3, Len(part))
      [] Ipv4Radix(part) = 8 -> SubSeq(part, 2, Len(part))
      [] OTHER -> part

\* the IPv4 number parser does not fail on part
Ipv4NumberParses(part) ==
    /\ part # <<>>
    /\ \A p \in 1..Len(Ipv4Digits(part)) :
          /\ Ipv4Digits(part)[p] \in LowerCase \cup UpperCase \cup Digits
          /\ DigitValue(Ipv4Digits(part)[p]) < Ipv4Radix(part)

\* digits without its leading zeros
Significant(digits) ==
    LET nonzero == {p \in 1..Len(digits) : digits[p] # "0"}
    IN  IF nonzero = {} THEN <<>> ELSE SubSeq(digits, Least(nonzero), Len(digits))

RECURSIVE ToNumber(_, _)
ToNumber(digits, radix) ==
    IF digits = <<>> THEN 0
    ELSE ToNumber(SubSeq(digits, 1, Len(digits) - 1), radix) * radix
             + DigitValue(digits[Len(digits)])

RECURSIVE ToWords(_, _)
\* the number as hi * 65536 + lo, hi standing at 65536 for 2^32 and beyond
ToWords(digits, radix) ==
    IF digits = <<>> THEN [hi |-> 0, lo |-> 0]
    ELSE LET front == ToWords(SubSeq(digits, 1, Len(digits) - 1), radix)
             lo == front.lo * radix + DigitValue(digits[Len(digits)])
         IN  [hi |-> Min(front.hi * radix + (lo \div 65536), 65536),
              lo |-> lo % 65536]

\* more than eleven significant digits are 2^32 and beyond in every radix
Ipv4Number(part) ==
    LET digits == Significant(Ipv4Digits(part))
    IN  IF Len(digits) > 11 THEN [hi |-> 65536, lo |-> 0]
        ELSE ToWords(digits, Ipv4Radix(part))

\* number < 256^k
BelowPower256(number, k) ==
    CASE k = 1 -> number.hi = 0 /\ number.lo < 256
      [] k = 2 -> number.hi = 0
      [] k = 3 -> number.hi < 256
      [] k = 4 -> number.hi < 65536

\* the ends-in-a-number checker
EndsInNumber(host) ==
    LET parts == Ipv4Parts(host)
        lastPart == parts[Len(parts)]
    IN  \/ lastPart # <<>> /\ \A p \in 1..Len(lastPart) : lastPart[p] \in Digits
        \/ Ipv4NumberParses(lastPart)

\* the IPv4 parser does not fail on host
Ipv4Parses(host) ==
    LET parts == Ipv4Parts(host)
        n == Len(parts)
    IN  /\ n <= 4
        /\ \A k \in 1..n : Ipv4NumberParses(parts[k])
        /\ \A k \in 1..(n - 1) : BelowPower256(Ipv4Number(parts[k]), 1)
        /\ BelowPower256(Ipv4Number(parts[n]), 5 - n)

RECURSIVE Ipv4InIpv6(_, _, _, _)
\* the dotted decimal end of an IPv6 address, from pointer: the piece index
\* after it, -1 where the parser fails
Ipv4InIpv6(s, pointer, pieceIndex, numbersSeen) ==
    IF pointer > Len(s) THEN (IF numbersSeen = 4 THEN pieceIndex ELSE -1)
    ELSE LET start == IF numbersSeen > 0 THEN pointer + 1 ELSE pointer
             nondigits == {p \in start..Len(s) : s[p] \notin Digits}
             stop == IF nondigits = {} THEN Len(s) + 1 ELSE Least(nondigits)
             ipv4Piece == SubSeq(s, start, stop - 1)
         IN  IF numbersSeen > 0 /\ ~(s[pointer] = "." /\ numbersSeen < 4) THEN -1
             ELSE IF ipv4Piece = <<>> THEN -1
             ELSE IF Len(ipv4Piece) > 1 /\ ipv4Piece[1] = "0" THEN -1
             ELSE IF Len(ipv4Piece) > 3 \/ ToNumber(ipv4Piece, 10) > 255 THEN -1
             ELSE Ipv4InIpv6(s, stop,
                             IF numbersSeen + 1 \in {2, 4} THEN pieceIndex + 1
                             ELSE pieceIndex,
                             numbersSeen + 1)

RECURSIVE Ipv6Pieces(_, _, _, _)
\* the IPv6 parser does not fail on s from pointer, pieceIndex pieces read,
\* compress telling whether :: has been seen
Ipv6Pieces(s, pointer, pieceIndex, compress) ==
    IF pointer > Len(s) THEN compress \/ pieceIndex = 8
    ELSE IF pieceIndex = 8 THEN FALSE
    ELSE IF s[pointer] = ":"
    THEN ~compress /\ Ipv6Pieces(s, pointer + 1, pieceIndex + 1, TRUE)
    ELSE LET nonhex == {p \in pointer..Len(s) : s[p] \notin HexDigits}
             stop == Min(IF nonhex = {} THEN Len(s) + 1 ELSE Least(nonhex),
                         pointer + 4)
         IN  IF stop > Len(s) THEN compress \/ pieceIndex + 1 = 8
             ELSE IF s[stop] = "."
             THEN /\ stop > pointer
                  /\ pieceIndex <= 6
                  /\ Ipv4InIpv6(s, pointer, pieceIndex, 0) # -1
                  /\ compress \/ Ipv4InIpv6(s, pointer, pieceIndex, 0) = 8
             ELSE IF s[stop] = ":"
             THEN stop < Len(s) /\ Ipv6Pieces(s, stop + 1, pieceIndex + 1, compress)
             ELSE FALSE

\* the IPv6 parser does not fail on s
Ipv6Parses(s) ==
    IF s # <<>> /\ s[1] = ":"
    THEN Len(s) >= 2 /\ s[2] = ":" /\ Ipv6Pieces(s, 3, 1, TRUE)
    ELSE Ipv6Pieces(s, 1, 0, FALSE)

\* the domain is lower case after domain to ASCII; a forbidden code point
\* fails whatever domain to ASCII makes of the rest
DomainParses(domain) ==
    CASE \E p \in 1..Len(domain) : domain[p] \in ForbiddenDomainCodePoints -> FALSE
      [] IdnaFree(domain) ->
            EndsInNumber(ToLowerCase(domain)) => Ipv4Parses(ToLowerCase(domain))

\* the host parser does not fail on host: an IPv6 address between brackets,
\* a domain when the scheme is special, an opaque host when it is not
HostParses(host, special) ==
    IF host # <<>> /\ host[1] = "["
    THEN host[Len(host)] = "]" /\ Ipv6Parses(SubSeq(host, 2, Len(host) - 1))
    ELSE IF special THEN DomainParses(PercentDecode(host))
    ELSE \A p \in 1..Len(host) : host[p] \notin ForbiddenHostCodePoints

\* what stands after the slashes that follow the scheme, up to the first
\* delimiter; a special scheme but file takes any number of slashes
AuthorityOf(rest, slashes, anySlashes) ==
    LET others == {p \in 1..Len(rest) : rest[p] \notin slashes}
        from == IF ~anySlashes THEN 3
                ELSE IF others = {} THEN Len(rest) + 1
                ELSE Least(others)
        ends == {p \in from..Len(rest) : rest[p] \in slashes \cup {"?", "#"}}
        to == IF ends = {} THEN Len(rest) ELSE Least(ends) - 1
    IN  SubSeq(rest, from, to)

\* position p of hostport stands between brackets
InsideBrackets(hostport, p) ==
    LET brackets == {q \in 1..(p - 1) : hostport[q] \in {"[", "]"}}
    IN  brackets # {} /\ hostport[Greatest(brackets)] = "["

\* the authority, host and port states do not fail
AuthorityParses(authority, special) ==
    LET ats == {p \in 1..Len(authority) : authority[p] = "@"}
        hostport == IF ats = {} THEN authority
                    ELSE SubSeq(authority, Greatest(ats) + 1, Len(authority))
        colons == {p \in 1..Len(hostport) :
                      hostport[p] = ":" /\ ~InsideBrackets(hostport, p)}
        host == IF colons = {} THEN hostport
                ELSE SubSeq(hostport, 1, Least(colons) - 1)
        port == IF colons = {} THEN <<>>
                ELSE SubSeq(hostport, Least(colons) + 1, Len(hostport))
    IN  /\ ats # {} => hostport # <<>>
        /\ (special \/ colons # {}) => host # <<>>
        /\ \A p \in 1..Len(port) : port[p] \in Digits
        /\ Len(Significant(port)) <= 5
        /\ ToNumber(Significant(port), 10) <= 65535
        /\ HostParses(host, special)

\* a Windows drive letter: a letter and then : or |
IsWindowsDriveLetter(s) ==
    Len(s) = 2 /\ s[1] \in LowerCase \cup UpperCase /\ s[2] \in {":", "|"}

\* a file URL: its host may be empty or a drive letter, and it has no port
FileParses(rest) ==
    LET host == AuthorityOf(rest, {"/", "\\"}, FALSE)
    IN  \/ Len(rest) < 2
        \/ rest[1] \notin {"/", "\\"}
        \/ rest[2] \notin {"/", "\\"}
        \/ host = <<>>
        \/ IsWindowsDriveLetter(host)
        \/ HostParses(host, TRUE)

\* new URL(input): ok is FALSE where the constructor throws a TypeError
NewURL(input) ==
    LET s == RemoveTabOrNewline(StripC0ControlOrSpace(input))
        colon == SchemeEnd(s)
        scheme == ToLowerCase(SubSeq(s, 1, colon - 1))
        rest == SubSeq(s, colon + 1, Len(s))
    IN  IF colon = 0 THEN [ok |-> FALSE, protocol |-> <<>>]
        ELSE [ok |-> IF scheme \in SpecialSchemes
                     THEN AuthorityParses(AuthorityOf(rest, {"/", "\\"}, TRUE), TRUE)
                     ELSE IF scheme = File THEN FileParses(rest)
                     ELSE IF Len(rest) >= 2 /\ rest[1] = "/" /\ rest[2] = "/"
                     THEN AuthorityParses(AuthorityOf(rest, {"/"}, FALSE), FALSE)
                     ELSE TRUE,
              protocol |-> scheme \o <<":">>]

(***************************************************************************)
(* validateLength, validateForContext.                                     *)
(***************************************************************************)
validateLength(input, maxLength) == Len(input) <= maxLength

AttributeForbidden == {"<", ">", "\"", "'", "&"}

\* new URL(input) has not thrown and ['http:', 'https:'].includes(url.protocol)
HasAllowedProtocol(url) ==
    url.ok /\ url.protocol \in {Http \o <<":">>, Https \o <<":">>}

\* the 'url' case accepting every input that parses, whatever its scheme
validateForContextAnyScheme(input, context) ==
    CASE context = "text" -> validateInput(input) /\ isValidContent(input)
      [] context = "attribute" ->
            validateInput(input) /\ ~(\E p \in 1..Len(input) : input[p] \in AttributeForbidden)
      [] context = "url" -> NewURL(input).ok
      [] OTHER -> validateInput(input)

\* the 'text' case checked by the rule of the 'attribute' case
validateForContextTextAsAttribute(input, context) ==
    CASE context = "text" ->
            validateInput(input) /\ ~(\E p \in 1..Len(input) : input[p] \in AttributeForbidden)
      [] context = "attribute" ->
            validateInput(input) /\ ~(\E p \in 1..Len(input) : input[p] \in AttributeForbidden)
      [] context = "url" -> HasAllowedProtocol(NewURL(input))
      [] OTHER -> validateInput(input)

validateForContext(input, context) ==
    CASE context = "text" -> validateInput(input) /\ isValidContent(input)
      [] context = "attribute" ->
            validateInput(input) /\ ~(\E p \in 1..Len(input) : input[p] \in AttributeForbidden)
      [] context = "url" -> HasAllowedProtocol(NewURL(input))
      [] OTHER -> validateInput(input)

(***************************************************************************)
(* validateAndSanitizeInput (App.tsx): the answer, the rate limiter's map  *)
(* after the call and the audit events the call logs.                      *)
(***************************************************************************)
\* validateLength(input, 500)
MaxInputLength == 500

ErrRateLimited == "Too many requests. Please wait before trying again."

ErrTooLong == "Input is too long. Maximum 500 characters allowed."

ErrInvalidInput == "Invalid input detected. Please check your content."

ErrUnsafeContent == "Potentially unsafe content detected."

ErrContext == "Content failed security validation."

\* the error property of an accepted result, which has none
Undefined == "undefined"

\* input.substring(0, 100): the longest excerpt of an input that the pipeline logs
MaxExcerpt == 100

\* input.substring(0, 50): the excerpt that a rate-limit rejection logs
MaxRateLimitExcerpt == 50

Rejected(error, limiter, event) ==
    [isValid |-> FALSE, sanitized |-> <<>>, error |-> error,
     limiter |-> limiter, audit |-> <<event>>]

RateLimitRejection(input, limiter) ==
    Rejected(ErrRateLimited, limiter,
        [event |-> "RATE_LIMIT_EXCEEDED",
         details |-> [input |-> Substring(input, 0, 50)]])

TooLongRejection(input, limiter) ==
    Rejected(ErrTooLong, limiter,
        [event |-> "INPUT_TOO_LONG", details |-> [length |-> Len(input)]])

\* the stages after the length check: content validation, context validation, sanitizing
ContentStages(input, limiter) ==
    IF ~validateInput(input)
    THEN Rejected(ErrInvalidInput, limiter,
             [event |-> "MALICIOUS_INPUT_DETECTED",
              details |-> [input |-> Substring(input, 0, 100)]])
    ELSE IF ~isValidContent(input)
    THEN Rejected(ErrUnsafeContent, limiter,
             [event |-> "SUSPICIOUS_CONTENT_DETECTED",
              details |-> [input |-> Substring(input, 0, 100)]])
    ELSE IF ~validateForContext(input, "text")
    THEN Rejected(ErrContext, limiter,
             [event |-> "CONTEXT_VALIDATION_FAILED",
              details |-> [input |-> Substring(input, 0, 100)]])
    ELSE [isValid |-> TRUE, sanitized |-> sanitizeHtml(Trim(input)),
          error |-> Undefined, limiter |-> limiter, audit |-> <<>>]

\* the length check made before the rate limiter is asked
validateAndSanitizeInputLengthFirst(input, attempts, t) ==
    IF ~validateLength(input, MaxInputLength)
    THEN TooLongRejection(input, attempts)
    ELSE LET rl == isAllowed(attempts, "crud_operations", t)
         IN  IF ~rl.allowed
             THEN RateLimitRejection(input, rl.attempts)
             ELSE ContentStages(input, rl.attempts)

\* the length check left to validateInput and its own limit
validateAndSanitizeInputNoLengthCheck(input, attempts, t) ==
    LET rl == isAllowed(attempts, "crud_operations", t)
    IN  IF ~rl.allowed
        THEN RateLimitRejection(input, rl.attempts)
        ELSE ContentStages(input, rl.attempts)

\* a rejection after the limiter that gives the limiter's slot back
validateAndSanitizeInputRefund(input, attempts, t) ==
    LET rl == isAllowed(attempts, "crud_operations", t)
    IN  IF ~rl.allowed
        THEN RateLimitRejection(input, rl.attempts)
        ELSE IF ~validateLength(input, MaxInputLength)
        THEN TooLongRejection(input, attempts)
        ELSE LET r == ContentStages(input, rl.attempts)
             IN  IF r.isValid THEN r ELSE [r EXCEPT !.limiter = attempts]

\* a rejection that hands the escaped input back with its reason
validateAndSanitizeInputKeepsText(input, attempts, t) ==
    LET rl == isAllowed(attempts, "crud_operations", t)
        r == IF ~rl.allowed
             THEN RateLimitRejection(input, rl.attempts)
             ELSE IF ~validateLength(input, MaxInputLength)
             THEN TooLongRejection(input, rl.attempts)
             ELSE ContentStages(input, rl.attempts)
    IN  IF r.isValid THEN r ELSE [r EXCEPT !.sanitized = sanitizeHtml(input)]

validateAndSanitizeInput(input, attempts, t) ==
    LET rl == isAllowed(attempts, "crud_operations", t)
    IN  IF ~rl.allowed
        THEN RateLimitRejection(input, rl.attempts)
        ELSE IF ~validateLength(input, MaxInputLength)
        THEN TooLongRejection(input, rl.attempts)
        ELSE ContentStages(input, rl.attempts)

(***************************************************************************)
(* State.                                                                  *)
(***************************************************************************)
VARIABLES
    items,        \* useState<Item[]>: sequence of [id, text, createdAt, lastModified]
    newItem,      \* useState(''): the new-item input buffer
    editingId,    \* useState<string | null>
    editingText,  \* useState(''): the edit buffer
    security,     \* useState<SecurityState>: [isBlocked, message, attempts]
    timers,       \* pending setTimeout callbacks: their due times, oldest first
    rateLimiter,  \* rateLimiter.attempts: key -> sequence of timestamps
    now,          \* Date.now()
    audit,        \* the auditLog entries of the last step
    last,         \* the last call: its operation, arguments and answer
    hist,         \* per key, the isAllowed calls made since the key had no history
    events        \* the number of user events handled so far

vars ==
    <<items, newItem, editingId, editingText, security, timers, rateLimiter,
      now, audit, last, hist, events>>

appVars == <<items, newItem, editingId, editingText, security, timers>>

\* null, which is no identifier: identifiers are sequences of characters
Null == <<"null">>

Keys == {"crud_operations", "delete_operations"}

EmptyMap == [k \in {} |-> <<>>]

NoHistory == [n |-> 0, first |-> 0, within |-> TRUE]

Init ==
    /\ items = <<>>
    /\ newItem = <<>>
    /\ editingId = Null
    /\ editingText = <<>>
    /\ security = [isBlocked |-> FALSE, message |-> "", attempts |-> 0]
    /\ timers = <<>>
    /\ rateLimiter = EmptyMap
    /\ now = 0
    /\ audit = <<>>
    /\ last = [op |-> "none"]
    /\ hist = [k \in Keys |-> NoHistory]
    /\ events = 0

\* the set of the elements of a sequence
Elems(seq) == {seq[i] : i \in 1..Len(seq)}

(***************************************************************************)
(* The clock: readings never decrease.                                     *)
(***************************************************************************)
Tick(readings) ==
    /\ \E t \in readings : t > now /\ now' = t
    /\ UNCHANGED <<appVars, rateLimiter, audit, last, hist, events>>

(***************************************************************************)
(* The rate limiter on its own: isAllowed and reset on any key at any      *)
(* clock reading.                                                          *)
(***************************************************************************)
\* calls of isAllowed made on one key since it had no history
MaxCalls == 12

LimiterClock == {0, 1, WindowMs, WindowMs + 1}

IsAllowedCall(key) ==
    \E r \in {isAllowed(rateLimiter, key, now)}, h \in {hist[key]} :
        /\ h.n < MaxCalls
        /\ rateLimiter' = r.attempts
        /\ last' = [op |-> "isAllowed", key |-> key, time |-> now, allowed |-> r.allowed,
                    withinBefore |-> h.within]
        /\ hist' = [hist EXCEPT ![key] =
                      [n |-> h.n + 1,
                       first |-> IF h.n = 0 THEN now ELSE h.first,
                       within |-> IF h.n = 0 THEN TRUE
                                  ELSE h.within /\ now - h.first < WindowMs]]
        /\ UNCHANGED <<appVars, now, audit, events>>

ResetCall(key) ==
    /\ rateLimiter' = reset(rateLimiter, key)
    /\ last' = [op |-> "reset", key |-> key, time |-> now]
    /\ hist' = [hist EXCEPT ![key] = NoHistory]
    /\ UNCHANGED <<appVars, now, audit, events>>

LimiterTick == Tick(LimiterClock)

NextLimiter ==
    \/ LimiterTick
    \/ \E key \in Keys : IsAllowedCall(key)
    \/ \E key \in Keys : ResetCall(key)

SpecLimiter == Init /\ [][NextLimiter]_vars

(***************************************************************************)
(* The rate limiter without reset: isAllowed on any key at any clock       *)
(* reading, with the clock readings of the calls it allowed kept per key.  *)
(***************************************************************************)
InitWindow ==
    /\ items = <<>>
    /\ newItem = <<>>
    /\ editingId = Null
    /\ editingText = <<>>
    /\ security = [isBlocked |-> FALSE, message |-> "", attempts |-> 0]
    /\ timers = <<>>
    /\ rateLimiter = EmptyMap
    /\ now = 0
    /\ audit = <<>>
    /\ last = [op |-> "none"]
    /\ hist = [k \in Keys |-> [n |-> 0, accepted |-> <<>>]]
    /\ events = 0

\* the number of isAllowed calls of one behaviour, all keys together
MaxWindowCalls == 12

WindowCall(key) ==
    \E r \in {isAllowed(rateLimiter, key, now)}, h \in {hist[key]} :
        /\ hist["crud_operations"].n + hist["delete_operations"].n < MaxWindowCalls
        /\ rateLimiter' = r.attempts
        /\ last' = [op |-> "isAllowed", key |-> key, time |-> now, allowed |-> r.allowed]
        /\ hist' = [hist EXCEPT ![key] =
                      [n |-> h.n + 1,
                       accepted |-> IF r.allowed THEN Append(h.accepted, now)
                                    ELSE h.accepted]]
        /\ UNCHANGED <<appVars, now, audit, events>>

WindowTick == Tick(LimiterClock)

NextWindow ==
    \/ WindowTick
    \/ \E key \in Keys : WindowCall(key)

SpecWindow == InitWindow /\ [][NextWindow]_vars

(***************************************************************************)
(* validateAndSanitizeInput and sanitizeHtml as functions of their input:  *)
(* the input is any string built from a few tokens, or one of the samples. *)
(***************************************************************************)
MaxTokens == 3

LongPad == [i \in 1..(MaxInputLength - 2) |-> "a"]

Tokens ==
    { LtScript,
      <<"<", "S", "c", "R", "I", "p", "T">>,
      <<">">>,
      LtSlashScriptGt,
      <<" ">>,
      <<"a">>,
      <<" ", "s", "r", "c", "=", "x">>,
      <<"&">> }

RECURSIVE TokenStrings(_)
TokenStrings(n) ==
    IF n = 0 THEN {<<>>}
    ELSE LET shorter == TokenStrings(n - 1)
         IN  shorter \cup {s \o t : s \in shorter, t \in Tokens}

BuyMilk == <<"B", "u", "y", " ", "m", "i", "l", "k">>

ImgOnerror ==
    <<"<", "i", "m", "g", " ", "s", "r", "c", "=", "x", " ", "o", "n", "e", "r",
      "r", "o", "r", "=", "a", "l", "e", "r", "t", "(", "1", ")", ">">>

SanitizeExample == <<"<", "b", ">", "&", "\"", "'", "/">>

Samples ==
    { BuyMilk, ImgOnerror, SanitizeExample,
      <<"\t", " ">>,
      <<VerticalTab>>,
      <<VerticalTab, "a", "b", VerticalTab>>,
      <<"o", "n", "x", VerticalTab, "=">>,
      <<"u", "r", "l", VerticalTab, "(">>,
      <<"a", "/", "b">>,
      <<"&", "l", "t", ";">>,
      JavascriptColon \o <<"a", "l", "e", "r", "t", "(", "1", ")">>,
      <<"o", "n", "x", " ", "=">>,
      <<"U", "R", "L", " ", "(">>,
      <<"d", "r", "o", "p", " ", "i", "t">>,
      <<"d", "r", "o", "p", "s">>,
      <<"a", "-", "-">>,
      LongPad \o <<"a", "a">>,
      LongPad \o <<"a", "a", "a">>,
      LongPad \o <<"a", "&">>,
      LongPad \o LtScript \o <<">">> \o LtSlashScriptGt,
      [i \in 1..(MaxInputLength + 1) |-> " "] }

Inputs == TokenStrings(MaxTokens) \cup Samples

Zeros(n) == [i \in 1..n |-> 0]

\* the limiter before the call: fresh, one admitted call short of the limit, at the limit
ValidateLimiters ==
    { EmptyMap,
      [k \in {"crud_operations"} |-> Zeros(MaxAttempts - 1)],
      [k \in {"crud_operations"} |-> Zeros(MaxAttempts)] }

InitValidate ==
    /\ items = <<>>
    /\ newItem \in Inputs
    /\ editingId = Null
    /\ editingText = <<>>
    /\ security = [isBlocked |-> FALSE, message |-> "", attempts |-> 0]
    /\ timers = <<>>
    /\ rateLimiter \in ValidateLimiters
    /\ now = 0
    /\ audit = <<>>
    /\ last = [op |-> "none"]
    /\ hist = [k \in Keys |-> NoHistory]
    /\ events = 0

ValidateCall ==
    \E v \in {validateAndSanitizeInput(newItem, rateLimiter, now)} :
        /\ last.op = "none"
        /\ rateLimiter' = v.limiter
        /\ audit' = v.audit
        /\ last' = [op |-> "validateAndSanitizeInput", input |-> newItem,
                    before |-> rateLimiter, time |-> now,
                    isValid |-> v.isValid, sanitized |-> v.sanitized,
                    error |-> v.error]
        /\ UNCHANGED <<appVars, now, hist, events>>

SanitizeCall ==
    /\ last.op = "none"
    /\ last' = [op |-> "sanitizeHtml", input |-> newItem,
                output |-> sanitizeHtml(newItem)]
    /\ UNCHANGED <<appVars, rateLimiter, now, audit, hist, events>>

NextValidate == ValidateCall \/ SanitizeCall

SpecValidate == InitValidate /\ [][NextValidate]_vars

(***************************************************************************)
(* validateAndSanitizeInput called again and again, as addItem and         *)
(* saveEdit call it at each submission, with the clock readings of the     *)
(* calls the limiter admitted and the number of them a later stage         *)
(* rejected.                                                               *)
(***************************************************************************)
\* the number of validateAndSanitizeInput calls of one behaviour
MaxPipelineCalls == 11

\* a valid text, a text validateInput rejects, a text isValidContent rejects,
\* a text validateLength rejects
PipelineInputs ==
    { BuyMilk, ImgOnerror, <<"a", "-", "-">>, LongPad \o <<"a", "a", "a">> }

InitPipeline ==
    /\ items = <<>>
    /\ newItem = <<>>
    /\ editingId = Null
    /\ editingText = <<>>
    /\ security = [isBlocked |-> FALSE, message |-> "", attempts |-> 0]
    /\ timers = <<>>
    /\ rateLimiter = EmptyMap
    /\ now = 0
    /\ audit = <<>>
    /\ last = [op |-> "none"]
    /\ hist = [k \in Keys |-> [n |-> 0, admitted |-> <<>>, rejected |-> 0]]
    /\ events = 0

PipelineCall(input) ==
    \E v \in {validateAndSanitizeInput(input, rateLimiter, now)},
       h \in {hist["crud_operations"]} :
        /\ h.n < MaxPipelineCalls
        /\ rateLimiter' = v.limiter
        /\ audit' = v.audit
        /\ last' = [op |-> "validateAndSanitizeInput", input |-> input, time |-> now,
                    isValid |-> v.isValid, error |-> v.error]
        /\ hist' = [hist EXCEPT !["crud_operations"] =
                      [n |-> h.n + 1,
                       admitted |-> IF v.error # ErrRateLimited
                                    THEN Append(h.admitted, now) ELSE h.admitted,
                       rejected |-> IF ~v.isValid /\ v.error # ErrRateLimited
                                    THEN h.rejected + 1 ELSE h.rejected]]
        /\ UNCHANGED <<appVars, now, events>>

PipelineClock == {0, 1, WindowMs}

PipelineTick == Tick(PipelineClock)

NextPipeline ==
    \/ PipelineTick
    \/ \E input \in PipelineInputs : PipelineCall(input)

SpecPipeline == InitPipeline /\ [][NextPipeline]_vars

(***************************************************************************)
(* The handlers of App.tsx.  Each is a function of the state it reads and  *)
(* answers the state it leaves; the action assigns it.  A handler runs     *)
(* only when the control wired to it is enabled.                           *)
(***************************************************************************)
MaxItems == 2

\* user events handled in one run
MaxEvents == 6

\* cap of security.attempts, which a run of rejected adds would grow without end
MaxSecurityAttempts == 2

\* setTimeout(..., 5000)
AlertClearDelayMs == 5000

SecurityCleared == [isBlocked |-> FALSE, message |-> "", attempts |-> 0]

Alert(message) == [isBlocked |-> TRUE, message |-> message, attempts |-> 0]

MsgInvalidId == "Invalid item identifier"

MsgDeleteRateLimited == "Too many delete requests. Please wait."

MsgInputTooLong == "Input too long. Maximum 500 characters."

\* an item whose id is editingId is rendered with the edit controls
EditVisible == \E i \in 1..Len(items) : items[i].id = editingId

\* addItem with the new item put in front and the buffer kept
addItemPrepend(randomFraction, moreRandomFraction, createdAt, timestamp) ==
    LET validation == validateAndSanitizeInput(newItem, rateLimiter, now)
        item == [id |-> generateSecureId(timestamp, randomFraction, moreRandomFraction),
                 text |-> validation.sanitized,
                 createdAt |-> createdAt, lastModified |-> createdAt]
        same == [items |-> items, newItem |-> newItem, security |-> security,
                 timers |-> timers, limiter |-> validation.limiter,
                 audit |-> validation.audit, outcome |-> "NONE", id |-> Null,
                 now |-> now]
    IN  IF ~validation.isValid
        THEN [same EXCEPT
                !.security = [isBlocked |-> TRUE, message |-> validation.error,
                              attempts |-> security.attempts + 1],
                !.timers = Append(timers, now + AlertClearDelayMs),
                !.outcome = "REJECTED"]
        ELSE IF validation.sanitized # <<>>
        THEN [same EXCEPT
                !.items = <<item>> \o items,
                !.security = SecurityCleared,
                !.audit = <<[event |-> "ITEM_CREATED",
                             details |-> [itemId |-> item.id,
                                          textLength |-> Len(item.text)]]>>,
                !.outcome = "CREATED",
                !.id = item.id,
                !.now = timestamp]
        ELSE same

\* addItem.  It reads the clock up to three times: in isAllowed (the state's now),
\* in const now = Date.now() (createdAt) and in generateSecureId (timestamp);
\* the answer's now is the last reading made
addItem(randomFraction, moreRandomFraction, createdAt, timestamp) ==
    LET validation == validateAndSanitizeInput(newItem, rateLimiter, now)
        item == [id |-> generateSecureId(timestamp, randomFraction, moreRandomFraction),
                 text |-> validation.sanitized,
                 createdAt |-> createdAt, lastModified |-> createdAt]
        same == [items |-> items, newItem |-> newItem, security |-> security,
                 timers |-> timers, limiter |-> validation.limiter,
                 audit |-> validation.audit, outcome |-> "NONE", id |-> Null,
                 now |-> now]
    IN  IF ~validation.isValid
        THEN [same EXCEPT
                !.security = [isBlocked |-> TRUE, message |-> validation.error,
                              attempts |-> security.attempts + 1],
                !.timers = Append(timers, now + AlertClearDelayMs),
                !.outcome = "REJECTED"]
        ELSE IF validation.sanitized # <<>>
        THEN [same EXCEPT
                !.items = Append(items, item),
                !.newItem = <<>>,
                !.security = SecurityCleared,
                !.audit = <<[event |-> "ITEM_CREATED",
                             details |-> [itemId |-> item.id,
                                          textLength |-> Len(item.text)]]>>,
                !.outcome = "CREATED",
                !.id = item.id,
                !.now = timestamp]
        ELSE same

AddItem(randomFraction, moreRandomFraction, createdAt, timestamp) ==
    /\ events < MaxEvents
    /\ ~security.isBlocked
    /\ now <= createdAt
    /\ createdAt <= timestamp
    /\ \E r \in {addItem(randomFraction, moreRandomFraction, createdAt, timestamp)} :
        /\ now' = r.now
        /\ r.outcome = "CREATED" => Len(items) < MaxItems
        /\ r.outcome = "REJECTED" => security.attempts < MaxSecurityAttempts
        /\ items' = r.items
        /\ newItem' = r.newItem
        /\ security' = r.security
        /\ timers' = r.timers
        /\ rateLimiter' = r.limiter
        /\ audit' = r.audit
        /\ last' = [op |-> "addItem", outcome |-> r.outcome, id |-> r.id]
        /\ events' = events + 1
    /\ UNCHANGED <<editingId, editingText, hist>>

deleteItemNoIdCheck(id) ==
    LET rl == isAllowed(rateLimiter, "delete_operations", now)
    IN  [items |-> SelectSeq(items, LAMBDA item : item.id # id),
         security |-> security, limiter |-> rl.attempts,
         audit |-> <<[event |-> "ITEM_DELETED", details |-> [itemId |-> id]]>>,
         outcome |-> "DELETED"]

\* deleteItem removing the first item of the id only
deleteItemFirstOnly(id) ==
    LET rl == isAllowed(rateLimiter, "delete_operations", now)
        hits == {i \in 1..Len(items) : items[i].id = id}
        first == IF hits = {} THEN 0 ELSE Least(hits)
    IN  IF ~MatchesIdFormat(id)
        THEN [items |-> items, security |-> Alert(MsgInvalidId),
              limiter |-> rateLimiter,
              audit |-> <<[event |-> "INVALID_DELETE_ID", details |-> [id |-> id]]>>,
              outcome |-> "INVALID_ID"]
        ELSE IF ~rl.allowed
        THEN [items |-> items, security |-> Alert(MsgDeleteRateLimited),
              limiter |-> rl.attempts,
              audit |-> <<[event |-> "DELETE_RATE_LIMIT_EXCEEDED",
                           details |-> [id |-> id]]>>,
              outcome |-> "RATE_LIMITED"]
        ELSE [items |-> SubSeq(items, 1, first - 1) \o SubSeq(items, first + 1, Len(items)),
              security |-> security, limiter |-> rl.attempts,
              audit |-> <<[event |-> "ITEM_DELETED", details |-> [itemId |-> id]]>>,
              outcome |-> "DELETED"]

\* deleteItem
deleteItem(id) ==
    LET rl == isAllowed(rateLimiter, "delete_operations", now)
    IN  IF ~MatchesIdFormat(id)
        THEN [items |-> items, security |-> Alert(MsgInvalidId),
              limiter |-> rateLimiter,
              audit |-> <<[event |-> "INVALID_DELETE_ID", details |-> [id |-> id]]>>,
              outcome |-> "INVALID_ID"]
        ELSE IF ~rl.allowed
        THEN [items |-> items, security |-> Alert(MsgDeleteRateLimited),
              limiter |-> rl.attempts,
              audit |-> <<[event |-> "DELETE_RATE_LIMIT_EXCEEDED",
                           details |-> [id |-> id]]>>,
              outcome |-> "RATE_LIMITED"]
        ELSE [items |-> SelectSeq(items, LAMBDA item : item.id # id),
              security |-> security, limiter |-> rl.attempts,
              audit |-> <<[event |-> "ITEM_DELETED", details |-> [itemId |-> id]]>>,
              outcome |-> "DELETED"]

\* identifiers no item carries, handed to deleteItem all the same
ForeignIds ==
    { <<"a", "b", "c">>,
      [i \in 1..(MaxExcerpt + 1) |-> "a"],
      <<"1", "_", "A">>,
      <<"7", "_", "z", "9">> }

DeleteIds == {items[i].id : i \in 1..Len(items)} \cup ForeignIds

DeleteItem(id) ==
    \E r \in {deleteItem(id)} :
        /\ events < MaxEvents
        /\ ~security.isBlocked
        /\ items' = r.items
        /\ security' = r.security
        /\ rateLimiter' = r.limiter
        /\ audit' = r.audit
        /\ last' = [op |-> "deleteItem", outcome |-> r.outcome, id |-> id]
        /\ events' = events + 1
    /\ UNCHANGED <<newItem, editingId, editingText, timers, now, hist>>

\* startEditing(items[i])
StartEditing(i) ==
    /\ events < MaxEvents
    /\ ~security.isBlocked
    /\ items[i].id # editingId
    /\ editingId' = items[i].id
    /\ editingText' = items[i].text
    /\ audit' = <<[event |-> "EDIT_STARTED", details |-> [itemId |-> items[i].id]]>>
    /\ last' = [op |-> "startEditing", outcome |-> "STARTED", id |-> items[i].id]
    /\ events' = events + 1
    /\ UNCHANGED <<items, newItem, security, timers, rateLimiter, now, hist>>

\* the last clock reading of a saveEdit that writes: the one made for the last
\* item of the edited id
LastModifiedReading(modified) ==
    LET written == {i \in 1..Len(items) : items[i].id = editingId}
    IN  IF written = {} THEN now ELSE modified[Greatest(written)]

\* saveEdit that stores the edit buffer although the validation rejected it
saveEditStoresRejected(modified) ==
    LET validation == validateAndSanitizeInput(editingText, rateLimiter, now)
        stored == IF validation.isValid THEN validation.sanitized ELSE editingText
    IN  [items |-> IF stored # <<>>
                    THEN [i \in 1..Len(items) |->
                            IF items[i].id = editingId
                            THEN [items[i] EXCEPT !.text = stored, !.lastModified = modified[i]]
                            ELSE items[i]]
                    ELSE items,
         editingId |-> IF validation.isValid THEN Null ELSE editingId,
         editingText |-> IF validation.isValid THEN <<>> ELSE editingText,
         security |-> IF validation.isValid THEN SecurityCleared
                      ELSE Alert(validation.error),
         timers |-> IF validation.isValid THEN timers
                    ELSE Append(timers, now + AlertClearDelayMs),
         limiter |-> validation.limiter,
         audit |-> validation.audit,
         outcome |-> IF validation.isValid THEN "UPDATED" ELSE "REJECTED",
         now |-> IF stored # <<>> THEN LastModifiedReading(modified) ELSE now]

\* saveEdit that sanitizes and stores the edit buffer whatever the validation says
saveEditSanitizesUnchecked(modified) ==
    LET validation == validateAndSanitizeInput(editingText, rateLimiter, now)
        stored == sanitizeHtml(Trim(editingText))
    IN  [items |-> IF stored # <<>>
                    THEN [i \in 1..Len(items) |->
                            IF items[i].id = editingId
                            THEN [items[i] EXCEPT !.text = stored, !.lastModified = modified[i]]
                            ELSE items[i]]
                    ELSE items,
         editingId |-> Null,
         editingText |-> <<>>,
         security |-> SecurityCleared,
         timers |-> timers,
         limiter |-> validation.limiter,
         audit |-> IF stored # <<>>
                   THEN <<[event |-> "ITEM_UPDATED",
                           details |-> [itemId |-> editingId,
                                        textLength |-> Len(stored)]]>>
                   ELSE <<>>,
         outcome |-> "UPDATED",
         now |-> IF stored # <<>> THEN LastModifiedReading(modified) ELSE now]

\* saveEdit that writes the sanitized text to every item of the list
saveEditAllItems(modified) ==
    LET validation == validateAndSanitizeInput(editingText, rateLimiter, now)
        same == [items |-> items, editingId |-> editingId, editingText |-> editingText,
                 security |-> security, timers |-> timers,
                 limiter |-> validation.limiter, audit |-> validation.audit,
                 outcome |-> "NONE", now |-> now]
    IN  IF ~validation.isValid
        THEN [same EXCEPT
                !.security = Alert(validation.error),
                !.timers = Append(timers, now + AlertClearDelayMs),
                !.outcome = "REJECTED"]
        ELSE [same EXCEPT
                !.items = [i \in 1..Len(items) |->
                             [items[i] EXCEPT !.text = validation.sanitized,
                                              !.lastModified = modified[i]]],
                !.now = IF items = <<>> THEN now ELSE modified[Len(items)],
                !.editingId = Null,
                !.editingText = <<>>,
                !.security = SecurityCleared,
                !.outcome = "UPDATED"]

\* saveEdit, editingId being set.  isAllowed reads the clock (the state's now),
\* and the updater reads it again for each item of the edited id: modified[i]
\* is the reading made for items[i]
saveEdit(modified) ==
    LET validation == validateAndSanitizeInput(editingText, rateLimiter, now)
        same == [items |-> items, editingId |-> editingId, editingText |-> editingText,
                 security |-> security, timers |-> timers,
                 limiter |-> validation.limiter, audit |-> validation.audit,
                 outcome |-> "NONE", now |-> now]
    IN  IF ~validation.isValid
        THEN [same EXCEPT
                !.security = Alert(validation.error),
                !.timers = Append(timers, now + AlertClearDelayMs),
                !.outcome = "REJECTED"]
        ELSE [same EXCEPT
                !.items = IF validation.sanitized # <<>>
                          THEN [i \in 1..Len(items) |->
                                  IF items[i].id = editingId
                                  THEN [items[i] EXCEPT !.text = validation.sanitized,
                                                        !.lastModified = modified[i]]
                                  ELSE items[i]]
                          ELSE items,
                !.audit = IF validation.sanitized # <<>>
                          THEN <<[event |-> "ITEM_UPDATED",
                                  details |-> [itemId |-> editingId,
                                               textLength |-> Len(validation.sanitized)]]>>
                          ELSE <<>>,
                !.now = IF validation.sanitized # <<>>
                        THEN LastModifiedReading(modified) ELSE now,
                !.editingId = Null,
                !.editingText = <<>>,
                !.security = SecurityCleared,
                !.outcome = "UPDATED"]

\* the clock readings the updater of a saveEdit can make, one for each item of
\* the edited id, none before the state's now and none before the one made for
\* an earlier item
ModifiedReadings(readings) ==
    { modified \in [1..Len(items) -> readings \cup {now}] :
        \A i \in 1..Len(items) :
            IF items[i].id = editingId
            THEN /\ modified[i] >= now
                 /\ \A j \in 1..(i - 1) :
                       items[j].id = editingId => modified[j] <= modified[i]
            ELSE modified[i] = now }

SaveEdit(modified) ==
    /\ events < MaxEvents
    /\ editingId # Null
    /\ EditVisible
    /\ ~security.isBlocked
    /\ \E r \in {saveEdit(modified)} :
        /\ now' = r.now
        /\ items' = r.items
        /\ editingId' = r.editingId
        /\ editingText' = r.editingText
        /\ security' = r.security
        /\ timers' = r.timers
        /\ rateLimiter' = r.limiter
        /\ audit' = r.audit
        /\ last' = [op |-> "saveEdit", outcome |-> r.outcome, id |-> editingId]
        /\ events' = events + 1
    /\ UNCHANGED <<newItem, hist>>

\* cancelEdit
CancelEdit ==
    /\ events < MaxEvents
    /\ EditVisible
    /\ editingId' = Null
    /\ editingText' = <<>>
    /\ audit' = <<[event |-> "EDIT_CANCELLED", details |-> [itemId |-> editingId]]>>
    /\ last' = [op |-> "cancelEdit", outcome |-> "CANCELLED", id |-> editingId]
    /\ events' = events + 1
    /\ UNCHANGED <<items, newItem, security, timers, rateLimiter, now, hist>>

\* handleNewItemChange
HandleNewItemChange(value) ==
    /\ events < MaxEvents
    /\ ~security.isBlocked
    /\ IF Len(value) > MaxInputLength
       THEN /\ security' = Alert(MsgInputTooLong)
            /\ newItem' = newItem
       ELSE /\ newItem' = value
            /\ security' = IF security.isBlocked /\ Len(value) < MaxInputLength
                           THEN [security EXCEPT !.isBlocked = FALSE, !.message = ""]
                           ELSE security
    /\ audit' = <<>>
    /\ last' = [op |-> "handleNewItemChange",
                outcome |-> IF Len(value) > MaxInputLength THEN "REJECTED" ELSE "TYPED",
                id |-> Null]
    /\ events' = events + 1
    /\ UNCHANGED <<items, editingId, editingText, timers, rateLimiter, now, hist>>

\* handleEditTextChange
HandleEditTextChange(value) ==
    /\ events < MaxEvents
    /\ ~security.isBlocked
    /\ EditVisible
    /\ IF Len(value) > MaxInputLength
       THEN /\ security' = Alert(MsgInputTooLong)
            /\ editingText' = editingText
       ELSE /\ editingText' = value
            /\ security' = security
    /\ audit' = <<>>
    /\ last' = [op |-> "handleEditTextChange",
                outcome |-> IF Len(value) > MaxInputLength THEN "REJECTED" ELSE "TYPED",
                id |-> Null]
    /\ events' = events + 1
    /\ UNCHANGED <<items, newItem, editingId, timers, rateLimiter, now, hist>>

\* the callback of the oldest pending setTimeout, once it is due
TimerFire ==
    /\ timers # <<>>
    /\ Head(timers) <= now
    /\ timers' = Tail(timers)
    /\ security' = [security EXCEPT !.isBlocked = FALSE, !.message = ""]
    /\ audit' = <<>>
    /\ last' = [op |-> "timer", outcome |-> "CLEARED", id |-> Null]
    /\ UNCHANGED <<items, newItem, editingId, editingText, rateLimiter, now, hist, events>>

\* what the user types
TypedInputs ==
    { BuyMilk,
      ImgOnerror,
      <<"<", "b", ">">>,
      [i \in 1..(MaxExcerpt + 1) |-> " "],
      LongPad \o <<"a", "a", "a">> }

\* Math.random(): 0 and 0.5
RandomFractions == { <<>>, <<18>> }

\* the two Math.random() results of one generateSecureId call: 0 and 0, 0.5 and 0
RandomPairs == { <<r, <<>>>> : r \in RandomFractions }

AppClock == {0, AlertClearDelayMs}

AppTick == Tick(AppClock)

Next ==
    \/ AppTick
    \/ \E value \in TypedInputs : HandleNewItemChange(value)
    \/ \E r \in RandomPairs, createdAt \in AppClock, timestamp \in AppClock :
          AddItem(r[1], r[2], createdAt, timestamp)
    \/ \E id \in DeleteIds : DeleteItem(id)
    \/ \E i \in 1..Len(items) : StartEditing(i)
    \/ \E value \in TypedInputs : HandleEditTextChange(value)
    \/ \E modified \in ModifiedReadings(AppClock) : SaveEdit(modified)
    \/ CancelEdit
    \/ TimerFire

Spec == Init /\ [][Next]_vars

(***************************************************************************)
(* deleteItem on a list that four adds at clock reading 0 have left: two   *)
(* of the items have the same id, and one has the id of Math.random() = 0. *)
(***************************************************************************)
\* the number of deleteItem calls of one behaviour
MaxDeleteEvents == 11

\* the item addItem appends at clock reading 0
AddedItem(randomFraction, text) ==
    [id |-> generateSecureId(0, randomFraction, <<>>), text |-> text,
     createdAt |-> 0, lastModified |-> 0]

AddedItems ==
    <<AddedItem(<<18>>, BuyMilk), AddedItem(<<>>, <<"a">>),
      AddedItem(<<18>>, <<"b">>), AddedItem(<<1>>, <<"c">>)>>

InitDelete ==
    /\ items = AddedItems
    /\ newItem = <<>>
    /\ editingId = Null
    /\ editingText = <<>>
    /\ security = SecurityCleared
    /\ timers = <<>>
    /\ rateLimiter = MapSet(EmptyMap, "crud_operations", <<0, 0, 0, 0>>)
    /\ now = 0
    /\ audit = <<>>
    /\ last = [op |-> "none"]
    /\ hist = [k \in Keys |-> NoHistory]
    /\ events = 0

\* a click on the delete button of an item, or deleteItem with another id
DeleteClick(id) ==
    \E r \in {deleteItem(id)} :
        /\ events < MaxDeleteEvents
        /\ ~security.isBlocked
        /\ items' = r.items
        /\ security' = r.security
        /\ rateLimiter' = r.limiter
        /\ audit' = r.audit
        /\ last' = [op |-> "deleteItem", outcome |-> r.outcome, id |-> id]
        /\ events' = events + 1
    /\ UNCHANGED <<newItem, editingId, editingText, timers, now, hist>>

DeleteClock == {0, 1, WindowMs}

DeleteTick == Tick(DeleteClock)

NextDelete ==
    \/ DeleteTick
    \/ \E id \in DeleteIds : DeleteClick(id)

SpecDelete == InitDelete /\ [][NextDelete]_vars

(***************************************************************************)
(* The handlers with time that goes on: the clock reaches the due time of  *)
(* every pending timer, and the event loop runs the callback of a timer    *)
(* that is due.                                                            *)
(***************************************************************************)
\* the clock reaches the due time of a pending timer
LiveTick == Tick(Elems(timers))

NextLive == Next \/ LiveTick

SpecLive == Init /\ [][NextLive]_vars /\ WF_vars(LiveTick) /\ WF_vars(TimerFire)

(***************************************************************************)
(* The add form on its own.  Its onSubmit calls addItem whatever the alert *)
(* state is: only the disabled attributes of the input and of the button   *)
(* keep a submit event away while the alert is shown, and a submit event   *)
(* dispatched to the form itself is not kept away.                         *)
(***************************************************************************)
\* onSubmit={(e) => { e.preventDefault(); addItem(); }}
SubmitForm(randomFraction, moreRandomFraction, createdAt, timestamp) ==
    /\ events < MaxEvents
    /\ now <= createdAt
    /\ createdAt <= timestamp
    /\ \E r \in {addItem(randomFraction, moreRandomFraction, createdAt, timestamp)} :
        /\ now' = r.now
        /\ r.outcome = "CREATED" => Len(items) < MaxItems
        /\ r.outcome = "REJECTED" => security.attempts < MaxSecurityAttempts
        /\ items' = r.items
        /\ newItem' = r.newItem
        /\ security' = r.security
        /\ timers' = r.timers
        /\ rateLimiter' = r.limiter
        /\ audit' = r.audit
        /\ last' = [op |-> "addItem", outcome |-> r.outcome, id |-> r.id]
        /\ events' = events + 1
    /\ UNCHANGED <<editingId, editingText, hist>>

SubmitClock == {0, 1, AlertClearDelayMs, AlertClearDelayMs + 1}

SubmitTick == Tick(SubmitClock)

NextSubmit ==
    \/ SubmitTick
    \/ \E value \in TypedInputs : HandleNewItemChange(value)
    \/ \E r \in RandomPairs, createdAt \in SubmitClock, timestamp \in SubmitClock :
          SubmitForm(r[1], r[2], createdAt, timestamp)
    \/ TimerFire

SpecSubmit == Init /\ [][NextSubmit]_vars

(***************************************************************************)
(* validateForContext(input, 'url') as a function of its input: the input  *)
(* is any string built from a few tokens, or one of the samples.           *)
(***************************************************************************)
MaxUrlTokens == 3

ExampleCom == <<"e", "x", "a", "m", "p", "l", "e", ".", "c", "o", "m">>

Alert1 == <<"a", "l", "e", "r", "t", "(", "1", ")">>

NotAUrl == <<"n", "o", "t", " ", "a", " ", "u", "r", "l">>

HttpsExample == Https \o <<":", "/", "/">> \o ExampleCom \o <<"/", "a">>

UrlTokens ==
    { Https \o <<":">>,
      <<"H", "t", "t", "P", ":">>,
      JavascriptColon,
      <<"f", "t", "p", ":">>,
      <<"/", "/">>,
      ExampleCom,
      <<"/", "a">>,
      <<":">>,
      <<"1">>,
      <<".">>,
      <<" ">>,
      <<"@">>,
      <<"<">> }

RECURSIVE UrlTokenStrings(_)
UrlTokenStrings(n) ==
    IF n = 0 THEN {<<>>}
    ELSE LET shorter == UrlTokenStrings(n - 1)
         IN  shorter \cup {s \o t : s \in shorter, t \in UrlTokens}

UrlSamples ==
    { JavascriptColon \o Alert1,
      HttpsExample,
      NotAUrl,
      <<"\t">> \o HttpsExample \o <<" ">>,
      Https \o <<":", "/", "/">> \o ExampleCom \o <<":", "8", "0", "8", "0", "/", "a", "?", "q", "#", "f">>,
      Https \o <<":", "/", "/">> \o ExampleCom \o <<":", "6", "5", "5", "3", "6">>,
      Https \o <<":", "/", "/">> \o ExampleCom \o <<":", "a">>,
      Http \o <<":", "/", "/", "1", ".", "1", ".", "1", ".", "1", ".", "1">>,
      Http \o <<":", "/", "/", "2", "5", "6", ".", "1">>,
      Http \o <<":", "/", "/", "0", "x", "7", "f", ".", "1">>,
      Http \o <<":", "/", "/", "0", "8">>,
      Http \o <<":", "/", "/", "a", ".", "1">>,
      Http \o <<":", "/", "/", "u", "s", "e", "r", "@">>,
      Http \o <<":", "\\", "\\">> \o ExampleCom \o <<"\\", "a">>,
      Http \o <<":", "/", "/">> \o Alert1,
      Https \o <<":", "/", "/", "e", "x", " ", "a", ".", "c", "o", "m">>,
      File \o <<":", "/", "/", "/", "a">>,
      <<"m", "a", "i", "l", "t", "o", ":", "a", "@">> \o ExampleCom,
      <<"/", "a">>,
      <<"1">> \o HttpsExample,
      <<VerticalTab>> \o Http \o <<":", "/", "/", "a">>,
      Http \o <<":", "/", "/", "4", "2", "9", "4", "9", "6", "7", "2", "9", "6">>,
      Http \o <<":", "/", "/", "4", "2", "9", "4", "9", "6", "7", "2", "9", "5">>,
      Http \o <<":", "/", "/", "1", ".", "1", "6", "7", "7", "7", "2", "1", "6">>,
      Http \o <<":", "/", "/", "a", "%", "4", "1">>,
      Http \o <<":", "/", "/", "a", "%", "2", "f">>,
      Http \o <<":", "/", "/", "a", "%", "0", "0">>,
      Http \o <<":", "/", "/", "a", "%">>,
      Http \o <<":", "/", "/", "%", "3", "2", "%", "3", "5", "%", "3", "6", ".", "1">>,
      Http \o <<":", "/", "/", "[", ":", ":", "1", "]">>,
      Http \o <<":", "/", "/", "[", ":", ":", "1", "]", ":", "8", "0">>,
      Http \o <<":", "/", "/", "[", "1", ":", "2", ":", ":", "1", ".", "2", ".", "3", ".", "4", "]">>,
      Http \o <<":", "/", "/", "[", "1", ":", "2", "]">>,
      Http \o <<":", "/", "/", "[", ":", ":", "1">>,
      Https \o <<":", "/", "/">> \o ExampleCom \o <<":", "0", "0", "0", "0", "0", "0", "0", "0", "0", "0", "8", "0">> }

UrlInputs == UrlTokenStrings(MaxUrlTokens) \cup UrlSamples

InitUrl ==
    /\ items = <<>>
    /\ newItem \in UrlInputs
    /\ editingId = Null
    /\ editingText = <<>>
    /\ security = [isBlocked |-> FALSE, message |-> "", attempts |-> 0]
    /\ timers = <<>>
    /\ rateLimiter = EmptyMap
    /\ now = 0
    /\ audit = <<>>
    /\ last = [op |-> "none"]
    /\ hist = [k \in Keys |-> NoHistory]
    /\ events = 0

\* validateForContext(newItem, 'url')
ValidateUrlCall ==
    /\ last.op = "none"
    /\ last' = [op |-> "validateForContext", input |-> newItem, context |-> "url",
                result |-> validateForContext(newItem, "url")]
    /\ UNCHANGED <<appVars, rateLimiter, now, audit, hist, events>>

NextUrl == ValidateUrlCall

SpecUrl == InitUrl /\ [][NextUrl]_vars

(***************************************************************************)
(* Properties.                                                             *)
(***************************************************************************)
ValidateCalled == last.op = "validateAndSanitizeInput"

\* the rate limiter denied the 'crud_operations' category to the last validate call
LimiterDenied ==
    Len(ValidAttempts(last.before, "crud_operations", last.time)) >= MaxAttempts

\* C1: whenever the limiter denies 'crud_operations', validateAndSanitizeInput
\* answers the rate-limit rejection and logs that event alone, whatever the
\* input is: no later stage's reason is returned.
C1_RateLimitFirst ==
    (ValidateCalled /\ LimiterDenied) =>
        /\ ~last.isValid
        /\ last.error = ErrRateLimited
        /\ Len(audit) = 1
        /\ audit[1].event = "RATE_LIMIT_EXCEEDED"

\* a denied call whose input is over-long and holds a closed script tag
C1_Witness ==
    /\ ValidateCalled
    /\ LimiterDenied
    /\ Len(last.input) > MaxInputLength
    /\ ScriptTagPattern(ToLowerCase(last.input))
    /\ last.error = ErrRateLimited

\* C2 as stated: every call with an input of more than 500 characters is
\* rejected as too long.
C2_TooLongAlways ==
    (ValidateCalled /\ Len(last.input) > MaxInputLength) =>
        (~last.isValid /\ last.error = ErrTooLong)

\* C2, amended: every call the limiter admits with an input of more than 500
\* characters is rejected as too long, whatever the content; a call the limiter
\* denies is rejected as rate limited.
C2_TooLongWhenAdmitted ==
    (ValidateCalled /\ Len(last.input) > MaxInputLength) =>
        /\ ~last.isValid
        /\ last.error = IF LimiterDenied THEN ErrRateLimited ELSE ErrTooLong
        /\ ~LimiterDenied =>
              (Len(audit) = 1 /\ audit[1].event = "INPUT_TOO_LONG")

\* an admitted call, the input over-long and holding a closed script tag
C2_Witness ==
    /\ ValidateCalled
    /\ ~LimiterDenied
    /\ Len(last.input) > MaxInputLength
    /\ ScriptTagPattern(ToLowerCase(last.input))
    /\ last.error = ErrTooLong

\* s holds a script start tag: <script in any casing, then > at once or after
\* attribute content that starts with white space
HasScriptTag(s) ==
    LET l == ToLowerCase(s)
    IN  \E i \in 1..Len(l) : \E j \in (i + Len(LtScript))..Len(l) :
            /\ MatchAt(l, i, LtScript)
            /\ l[j] = ">"
            /\ j > i + Len(LtScript) => l[i + Len(LtScript)] \in WhiteSpace
            /\ \A p \in (i + Len(LtScript))..(j - 1) : l[p] \notin {"<", ">"}

\* C3: every input that holds a script tag, closed or not, is rejected with
\* the malicious-pattern reason (the call being admitted by the limiter and
\* the input within the length limit).
C3_ScriptTagIsMalicious ==
    (/\ ValidateCalled
     /\ ~LimiterDenied
     /\ Len(last.input) <= MaxInputLength
     /\ HasScriptTag(last.input)) =>
        /\ ~last.isValid
        /\ last.error = ErrInvalidInput
        /\ audit[1].event = "MALICIOUS_INPUT_DETECTED"

\* the reason validateAndSanitizeInput gives for a malicious-pattern match
MaliciousReason ==
    validateAndSanitizeInput(LtScript \o <<">">> \o LtSlashScriptGt, EmptyMap, 0).error

\* C4: an input within the length limit that is empty after trimming is
\* rejected with a reason of its own, which is not the reason of a
\* malicious-pattern match.
C4_EmptyHasOwnReason ==
    (/\ ValidateCalled
     /\ ~LimiterDenied
     /\ Len(last.input) <= MaxInputLength
     /\ Trim(last.input) = <<>>) =>
        /\ ~last.isValid
        /\ last.error # MaliciousReason
        /\ audit[1].event # "MALICIOUS_INPUT_DETECTED"

\* C5: on a key without history the first ten calls made within the window
\* are allowed, the eleventh within the window is denied, and the first call
\* made more than windowMs after the first one is allowed again.
C5_TenThenDeniedThenAllowed ==
    last.op = "isAllowed" =>
        LET h == hist[last.key]
        IN  /\ (h.n <= MaxAttempts /\ h.within) => last.allowed
            /\ (h.n = MaxAttempts + 1 /\ h.within) => ~last.allowed
            /\ (h.n > 1 /\ last.withinBefore /\ last.time - h.first > WindowMs)
                  => last.allowed

\* the twelfth call: eleven within the window, this one past it, allowed
C5_Witness ==
    /\ last.op = "isAllowed"
    /\ hist[last.key].n = MaxAttempts + 2
    /\ last.withinBefore
    /\ last.time - hist[last.key].first > WindowMs
    /\ last.allowed

\* after an isAllowed call every timestamp stored for its key is younger than
\* windowMs at the time of the call; no key holds more than maxAttempts
C6_StoredInvariant ==
    /\ \A k \in DOMAIN rateLimiter : Len(rateLimiter[k]) <= MaxAttempts
    /\ last.op = "isAllowed" =>
          \A t \in Elems(AttemptsOf(rateLimiter, last.key)) :
              /\ last.time - t < WindowMs
              /\ last.time - t >= 0

\* a step stores no timestamp but the clock reading of an allowed call, under
\* the key of that call; a denied call leaves the map as it was
C6_StoredStep ==
    /\ \A k \in Keys :
          Elems(AttemptsOf(rateLimiter', k)) \subseteq
              Elems(AttemptsOf(rateLimiter, k)) \cup
                  (IF /\ hist'[k].n = hist[k].n + 1
                      /\ last'.allowed
                   THEN {now}
                   ELSE {})
    /\ \A k \in Keys :
          (hist'[k].n = hist[k].n + 1 /\ ~last'.allowed) => rateLimiter' = rateLimiter

\* C6: the stored sequences hold only timestamps of allowed calls, at most
\* maxAttempts of them, all within the window right after an isAllowed call;
\* a denied call records nothing.
C6_StoredTimestamps == [](C6_StoredInvariant) /\ [][C6_StoredStep]_vars

\* a denied call at a later clock reading than the first of the ten stored
C6_Witness ==
    /\ last.op = "isAllowed"
    /\ ~last.allowed
    /\ Len(rateLimiter[last.key]) = MaxAttempts
    /\ Cardinality(Elems(rateLimiter[last.key])) > 1
    /\ last.time > rateLimiter[last.key][1]

\* isAllowed(k) and reset(k) leave every other key's timestamps, and the
\* answer of isAllowed on every other key at every clock reading, as they were
C7_FrameStep ==
    last'.op \in {"isAllowed", "reset"} =>
        \A k \in Keys \ {last'.key} :
            /\ AttemptsOf(rateLimiter', k) = AttemptsOf(rateLimiter, k)
            /\ \A t \in {c \in LimiterClock : c >= now} :
                  isAllowed(rateLimiter', k, t).allowed
                      = isAllowed(rateLimiter, k, t).allowed

\* reset(k) leaves k without history, and the first call on a key without
\* history is allowed; a key is denied only on ten timestamps of its own
C7_ResetInvariant ==
    /\ last.op = "reset" => last.key \notin DOMAIN rateLimiter
    /\ (last.op = "isAllowed" /\ hist[last.key].n = 1) => last.allowed
    /\ (last.op = "isAllowed" /\ ~last.allowed) =>
          Len(ValidAttempts(rateLimiter, last.key, last.time)) = MaxAttempts

\* C7: rate-limit state is kept per category.
C7_PerCategory == [](C7_ResetInvariant) /\ [][C7_FrameStep]_vars

\* 'crud_operations' is exhausted and just denied while 'delete_operations',
\* reset after use, holds nothing
C7_Witness ==
    /\ last.op = "isAllowed"
    /\ last.key = "crud_operations"
    /\ ~last.allowed
    /\ "delete_operations" \notin DOMAIN rateLimiter
    /\ hist["delete_operations"].n = 0
    /\ isAllowed(rateLimiter, "delete_operations", now).allowed

\* the entity of one character, the character itself if it has none
EscapeChar(c) ==
    CASE c = "&" -> EntAmp
      [] c = "<" -> EntLt
      [] c = ">" -> EntGt
      [] c = "\"" -> EntQuot
      [] c = "'" -> EntApos
      [] c = "/" -> EntSlash
      [] OTHER -> <<c>>

RECURSIVE EscapeRange(_, _, _)
\* positions lo..hi of s, each character escaped once, in order
EscapeRange(s, lo, hi) ==
    IF lo > hi THEN <<>>
    ELSE IF lo = hi THEN EscapeChar(s[lo])
    ELSE LET mid == (lo + hi) \div 2
         IN  EscapeRange(s, lo, mid) \o EscapeRange(s, mid + 1, hi)

SanitizeExampleOutput ==
    <<"&", "l", "t", ";", "b", "&", "g", "t", ";", "&", "a", "m", "p", ";",
      "&", "q", "u", "o", "t", ";", "&", "#", "x", "2", "7", ";",
      "&", "#", "x", "2", "F", ";">>

\* C8: sanitizeHtml replaces each of & < > " ' / by its entity, once, keeps
\* every other character and the order, and never escapes the & or / of an
\* entity it made itself.
C8_SanitizeEscapesOnce ==
    last.op = "sanitizeHtml" =>
        /\ last.output = EscapeRange(last.input, 1, Len(last.input))
        /\ last.input = SanitizeExample => last.output = SanitizeExampleOutput

\* the example of the specification
C8_Witness ==
    /\ last.op = "sanitizeHtml"
    /\ last.input = SanitizeExample
    /\ last.output = SanitizeExampleOutput

\* a user event that is a delete with an ill-formed identifier
C9_InvalidIdStep ==
    (/\ events' = events + 1
     /\ last'.op = "deleteItem"
     /\ ~MatchesIdFormat(last'.id)) =>
        /\ last'.outcome = "INVALID_ID"
        /\ items' = items
        /\ rateLimiter' = rateLimiter
        /\ security' = Alert(MsgInvalidId)

\* C9: a delete with an identifier that does not match ^\d+_[a-z0-9]+$ is
\* rejected as an invalid identifier and leaves the item list, and the rate
\* limiter, as they were.
C9_InvalidIdRejected == [][C9_InvalidIdStep]_vars

\* a delete of an item of the list whose identifier is ill-formed was rejected
C9_Witness ==
    /\ last.op = "deleteItem"
    /\ last.outcome = "INVALID_ID"
    /\ \E i \in 1..Len(items) : items[i].id = last.id

\* C10: every identifier generateSecureId gives an item matches
\* ^\d+_[a-z0-9]+$, so no delete of an item of the list is rejected for its
\* identifier.
C10_GeneratedIdsMatch ==
    /\ \A i \in 1..Len(items) : MatchesIdFormat(items[i].id)
    /\ (last.op = "deleteItem" /\ \E i \in 1..Len(items) : items[i].id = last.id)
          => last.outcome # "INVALID_ID"

\* a user event that is an add which created an item
C11_AddStep ==
    (/\ events' = events + 1
     /\ last'.op = "addItem"
     /\ last'.outcome = "CREATED") =>
        /\ Len(items') = Len(items) + 1
        /\ SubSeq(items', 1, Len(items)) = items
        /\ LET item == items'[Len(items')]
           IN  /\ item.text = EscapeRange(Trim(newItem), 1, Len(Trim(newItem)))
               /\ item.createdAt = item.lastModified
               /\ item.id = last'.id
               /\ newItem = BuyMilk => item.text = BuyMilk
        /\ newItem' = <<>>

\* C11: a successful add appends exactly one item at the end of the list, its
\* text the escaped trimmed input and its createdAt equal to its lastModified,
\* leaves the items already there as they were and empties the new-item buffer.
C11_AddAppendsOne == [][C11_AddStep]_vars

\* the second item of the list was just created from <b>, after Buy milk
C11_Witness ==
    /\ last.op = "addItem"
    /\ last.outcome = "CREATED"
    /\ Len(items) = 2
    /\ items[1].text = BuyMilk
    /\ items[2].text = EntLt \o <<"b">> \o EntGt
    /\ items[2].id = last.id
    /\ newItem = <<>>

\* a user event that is an add or an edit-save which the validation rejected
C12_RejectedStep ==
    (/\ events' = events + 1
     /\ last'.op \in {"addItem", "saveEdit"}
     /\ last'.outcome = "REJECTED") =>
        /\ items' = items
        /\ security'.isBlocked

\* an edit-save of the text <img src=x onerror=alert(1)> is rejected
C12_ImgOnerrorStep ==
    (/\ events' = events + 1
     /\ last'.op = "saveEdit"
     /\ editingText = ImgOnerror) =>
        /\ last'.outcome = "REJECTED"
        /\ security'.message \in {ErrInvalidInput, ErrUnsafeContent}

\* C12: a rejected edit-save leaves the text and lastModified of the edited
\* item, and the whole item list, as they were, and so does a rejected add;
\* editing an item to <img src=x onerror=alert(1)> is rejected.
C12_RejectedLeavesItems == [][C12_RejectedStep /\ C12_ImgOnerrorStep]_vars

\* the edit of Buy milk to <img src=x onerror=alert(1)> was just rejected
C12_Witness ==
    /\ last.op = "saveEdit"
    /\ last.outcome = "REJECTED"
    /\ editingText = ImgOnerror
    /\ \E i \in 1..Len(items) :
          /\ items[i].id = editingId
          /\ items[i].text = BuyMilk
          /\ items[i].lastModified = items[i].createdAt

\* the last user event, as the step that handles it
Handled(op, outcome) ==
    /\ events' = events + 1
    /\ last'.op = op
    /\ last'.outcome = outcome

\* what one step may do to the items: an add keeps them and appends, a delete
\* keeps the order of those it leaves, an edit-save keeps every id, every
\* createdAt and every item that has another id than the edited one, and no
\* other step touches the list
C13_ItemStep ==
    IF Handled("addItem", "CREATED")
    THEN SubSeq(items', 1, Len(items)) = items
    ELSE IF Handled("deleteItem", "DELETED")
    THEN items' = SelectSeq(items, LAMBDA item : item.id # last'.id)
    ELSE IF Handled("saveEdit", "UPDATED")
    THEN /\ Len(items') = Len(items)
         /\ \A i \in 1..Len(items) :
               /\ items'[i].id = items[i].id
               /\ items'[i].createdAt = items[i].createdAt
               /\ items[i].id # editingId => items'[i] = items[i]
    ELSE items' = items

\* C13: an item keeps its id and createdAt as long as it is in the list, its
\* text and lastModified change only in a successful edit-save of its id, and
\* a successful edit-save changes no item of another id, nor the number or
\* the order of the items.
C13_ItemsImmutable == [][C13_ItemStep]_vars

\* of two items with different ids the first was just edited at a later clock
\* reading; the second is as it was created
C13_Witness ==
    /\ last.op = "saveEdit"
    /\ last.outcome = "UPDATED"
    /\ Len(items) = 2
    /\ items[1].id = last.id
    /\ items[2].id # last.id
    /\ items[1].lastModified > items[1].createdAt
    /\ items[2].lastModified = items[2].createdAt

\* the callback of a timer fires while a timer scheduled after it is pending:
\* the alert state comes from a transition newer than the timer that fires
C14_StaleTimerStep ==
    (/\ Len(timers) >= 2
     /\ timers' = Tail(timers)
     /\ last'.op = "timer") =>
        /\ security'.isBlocked = security.isBlocked
        /\ security'.message = security.message

\* C14: the callback of a timer that a rejection scheduled leaves the blocked
\* flag and the message as they are when a newer alert or a success came
\* after that rejection: the latest state transition wins.
C14_StaleTimerKeepsAlert == [][C14_StaleTimerStep]_vars

\* C15: the alert state is transient: whenever it is blocked it is not blocked
\* some time later, the controls being disabled while it is blocked, time going
\* on and every due timer running its callback.
C15_AlertTransient == security.isBlocked ~> ~security.isBlocked

\* an alert that has a timer pending is cleared: what fails in C15 is an alert
\* set without a timer
AlertWithTimerTransient ==
    (security.isBlocked /\ timers # <<>>) ~> ~security.isBlocked

\* C16: every result of validateAndSanitizeInput has exactly one of the
\* sanitized value and the rejection reason: an accepted result has a
\* sanitized value that is not empty and no reason, a rejected result has a
\* reason and the empty sanitized value.
C16_OneOfValueOrReason ==
    ValidateCalled =>
        /\ last.isValid => (last.sanitized # <<>> /\ last.error = Undefined)
        /\ ~last.isValid =>
              /\ last.sanitized = <<>>
              /\ last.error \in {ErrRateLimited, ErrTooLong, ErrInvalidInput,
                                 ErrUnsafeContent, ErrContext}

\* an accepted input that the trim and the escape both change
C16_Witness ==
    /\ ValidateCalled
    /\ last.isValid
    /\ Trim(last.input) # last.input
    /\ last.sanitized # Trim(last.input)
    /\ last.error = Undefined

PipelineRejectionEvents ==
    {"RATE_LIMIT_EXCEEDED", "INPUT_TOO_LONG", "MALICIOUS_INPUT_DETECTED",
     "SUSPICIOUS_CONTENT_DETECTED", "CONTEXT_VALIDATION_FAILED"}

DeleteRejectionEvents == {"INVALID_DELETE_ID", "DELETE_RATE_LIMIT_EXCEEDED"}

\* what an audit event carries of the input of its operation
Carried(entry) ==
    IF "input" \in DOMAIN entry.details THEN entry.details.input
    ELSE IF "id" \in DOMAIN entry.details THEN entry.details.id
    ELSE <<>>

\* the event that a user event with this outcome must log
EventOf(op, outcome) ==
    CASE op = "addItem" /\ outcome = "CREATED" -> {"ITEM_CREATED"}
      [] op = "saveEdit" /\ outcome = "UPDATED" -> {"ITEM_UPDATED"}
      [] op \in {"addItem", "saveEdit"} /\ outcome = "REJECTED" -> PipelineRejectionEvents
      [] op = "deleteItem" /\ outcome = "DELETED" -> {"ITEM_DELETED"}
      [] op = "deleteItem" /\ outcome = "INVALID_ID" -> {"INVALID_DELETE_ID"}
      [] op = "deleteItem" /\ outcome = "RATE_LIMITED" -> {"DELETE_RATE_LIMIT_EXCEEDED"}
      [] op = "startEditing" -> {"EDIT_STARTED"}
      [] op = "cancelEdit" -> {"EDIT_CANCELLED"}
      [] OTHER -> {}

\* a rejection, and a successful create, update, delete, edit-start and
\* edit-cancel, logs its event
C17_EmitStep ==
    (events' = events + 1 /\ EventOf(last'.op, last'.outcome) # {}) =>
        /\ Len(audit') = 1
        /\ audit'[1].event \in EventOf(last'.op, last'.outcome)

\* the step handles a user event that was rejected
RejectionStep ==
    /\ events' = events + 1
    /\ last'.op \in {"addItem", "saveEdit", "deleteItem"}
    /\ last'.outcome \in {"REJECTED", "INVALID_ID", "RATE_LIMITED"}

\* the input of the operation that the step rejects
Offending ==
    CASE last'.op = "addItem" -> newItem
      [] last'.op = "saveEdit" -> editingText
      [] last'.op = "deleteItem" -> last'.id

\* the event of a rejection carries an excerpt of bounded size: no more of
\* the offending input than the longest excerpt the pipeline takes, so that
\* an input longer than that is never carried whole
C17_BoundedExcerptStep ==
    RejectionStep =>
        /\ Len(Carried(audit'[1])) <= MaxExcerpt
        /\ Len(Offending) > MaxExcerpt => Carried(audit'[1]) # Offending

\* C17: every rejection of the pipeline and of a delete, and every successful
\* create, update, delete, edit-start and edit-cancel, logs an audit event,
\* and the event of a rejection carries an excerpt of bounded size of the
\* offending input, never the full payload.  deleteItem logs the id it
\* rejects whole, whatever its length.
C17_AuditExcerpt == [][C17_EmitStep /\ C17_BoundedExcerptStep]_vars

\* the emission alone: every listed outcome logs its event
EveryOutcomeLogged == [][C17_EmitStep]_vars

\* s, with the white space at its ends and its tabs and newlines dropped,
\* starts with lit in any casing
StartsWith(s, lit) ==
    LET t == ToLowerCase(RemoveTabOrNewline(StripC0ControlOrSpace(s)))
    IN  Len(t) >= Len(lit) /\ SubSeq(t, 1, Len(lit)) = lit

\* C18: validateForContext(input, 'url') is true exactly when new URL(input)
\* does not throw and the protocol of the URL is http: or https:; it is a
\* Boolean for every input.  javascript:alert(1) and "not a url" are
\* rejected, https://example.com/a is accepted.
C18_UrlContext ==
    last.op = "validateForContext" =>
        /\ last.result \in BOOLEAN
        /\ last.result =
              /\ NewURL(last.input).ok
              /\ NewURL(last.input).protocol \in {Http \o <<":">>, Https \o <<":">>}
        /\ last.result =>
              \/ StartsWith(last.input, Http \o <<":">>)
              \/ StartsWith(last.input, Https \o <<":">>)
        /\ (\A p \in 1..Len(last.input) : last.input[p] # ":") => ~last.result
        /\ last.input = JavascriptColon \o Alert1 => ~last.result
        /\ last.input = NotAUrl => ~last.result
        /\ last.input = HttpsExample => last.result

\* the accepted example of the specification
C18_Witness ==
    /\ last.op = "validateForContext"
    /\ last.input = HttpsExample
    /\ last.result

\* the number of clock readings of seq in the interval (t - windowMs, t]
InWindow(seq, t) ==
    Len(SelectSeq(seq, LAMBDA time : time > t - WindowMs /\ time <= t))

\* the calls on the key of the last call that were allowed before it
AcceptedBefore ==
    LET accepted == hist[last.key].accepted
    IN  IF last.allowed THEN SubSeq(accepted, 1, Len(accepted) - 1) ELSE accepted

\* C19: under a clock that never goes back and without reset, for every key
\* and every time t at most maxAttempts of the calls that isAllowed allowed
\* have their clock reading in (t - windowMs, t]; a call is allowed exactly
\* when fewer than maxAttempts allowed calls lie in the window that ends at
\* it, so a clock reading exactly windowMs old counts no more.
C19_SlidingWindowBound ==
    /\ \A k \in Keys :
          \A t \in LimiterClock \cup Elems(hist[k].accepted) :
              InWindow(hist[k].accepted, t) <= MaxAttempts
    /\ last.op = "isAllowed" =>
          last.allowed = (InWindow(AcceptedBefore, last.time) < MaxAttempts)

\* ten calls allowed at one clock reading, and a call allowed exactly
\* windowMs later
C19_Witness ==
    /\ last.op = "isAllowed"
    /\ last.allowed
    /\ InWindow(AcceptedBefore, last.time - WindowMs) = MaxAttempts
    /\ InWindow(AcceptedBefore, last.time - 1) = MaxAttempts
    /\ InWindow(AcceptedBefore, last.time) = 0

\* C20: a deleteItem call with a well-formed id that the delete_operations
\* limiter admits leaves the items of another id, in their order, and no
\* item of the id, so the list as it was when no item has the id; a call
\* with a well-formed id that the limiter denies leaves the list as it was.
C20_DeleteStep ==
    (events' = events + 1 /\ last'.op = "deleteItem" /\ MatchesIdFormat(last'.id)) =>
        IF Len(SelectSeq(AttemptsOf(rateLimiter, "delete_operations"),
                         LAMBDA time : now - time < WindowMs)) < MaxAttempts
        THEN /\ last'.outcome = "DELETED"
             /\ items' = SelectSeq(items, LAMBDA item : item.id # last'.id)
             /\ (\A i \in 1..Len(items) : items[i].id # last'.id) => items' = items
        ELSE /\ last'.outcome = "RATE_LIMITED"
             /\ items' = items

C20_DeleteRemovesExactly == [][C20_DeleteStep]_vars

\* a delete that the limiter denied, after deletes that removed the two
\* items of one id and left the two others
C20_Witness ==
    /\ last.op = "deleteItem"
    /\ last.outcome = "RATE_LIMITED"
    /\ items = <<AddedItems[2], AddedItems[4]>>

\* C22: validateAndSanitizeInput never answers the reason of the context
\* stage and never logs CONTEXT_VALIDATION_FAILED, whatever the input and the
\* limiter, because an input that validateInput and isValidContent accept is
\* accepted by validateForContext(input, 'text') too.
C22_ContextStageUnreachable ==
    ValidateCalled =>
        /\ last.error # ErrContext
        /\ \A i \in 1..Len(audit) : audit[i].event # "CONTEXT_VALIDATION_FAILED"
        /\ (validateInput(last.input) /\ isValidContent(last.input))
              => validateForContext(last.input, "text")

\* an admitted input with a character the attribute context forbids, which
\* passes both content stages and the context stage
C22_Witness ==
    /\ ValidateCalled
    /\ last.isValid
    /\ last.before = EmptyMap
    /\ \E p \in 1..Len(last.input) : last.input[p] \in AttributeForbidden

\* the calls before the last one that the limiter admitted
AdmittedBefore ==
    LET admitted == hist["crud_operations"].admitted
    IN  IF last.error # ErrRateLimited
        THEN SubSeq(admitted, 1, Len(admitted) - 1) ELSE admitted

\* C21: a validateAndSanitizeInput call is rejected as rate limited exactly
\* when maxAttempts earlier calls that the limiter admitted lie within the
\* window, whether a later stage accepted or rejected them and whatever the
\* input of the call; an admitted call leaves its clock reading in the
\* limiter's list even when its input is rejected.
C21_RejectedCallsConsumeSlots ==
    ValidateCalled =>
        /\ (last.error = ErrRateLimited)
              = (InWindow(AdmittedBefore, last.time) >= MaxAttempts)
        /\ last.error # ErrRateLimited =>
              AttemptsOf(rateLimiter, "crud_operations")
                  = SelectSeq(hist["crud_operations"].admitted,
                              LAMBDA time : last.time - time < WindowMs)

\* the valid text rejected as rate limited after ten admitted calls in the
\* window, some of them accepted and some rejected by a later stage
C21_Witness ==
    /\ ValidateCalled
    /\ last.input = BuyMilk
    /\ last.error = ErrRateLimited
    /\ Len(hist["crud_operations"].admitted) = MaxAttempts
    /\ hist["crud_operations"].rejected \in 1..(MaxAttempts - 1)

\* the characters sanitizeHtml replaces, other than &
RawSpecials == {"<", ">", "\"", "'", "/"}

\* the entities sanitizeHtml writes, with the character each stands for
Entities ==
    { <<EntAmp, "&">>, <<EntLt, "<">>, <<EntGt, ">">>, <<EntQuot, "\"">>,
      <<EntApos, "'">>, <<EntSlash, "/">> }

\* lit is in text from position p on
OccursAt(text, p, lit) ==
    /\ p + Len(lit) - 1 <= Len(text)
    /\ SubSeq(text, p, p + Len(lit) - 1) = lit

\* an entity whose & has been escaped again, such as &amp;lt;
DoubleEscaped(text) ==
    \E p \in 1..Len(text), e \in Entities :
        OccursAt(text, p, EntAmp \o Tail(e[1]))

\* the text with each entity read back as its character, from position p on
RECURSIVE Unescape(_, _)
Unescape(text, p) ==
    IF p > Len(text) THEN <<>>
    ELSE LET es == {e \in Entities : OccursAt(text, p, e[1])}
         IN  IF es = {} THEN <<text[p]>> \o Unescape(text, p + 1)
             ELSE LET e == CHOOSE e \in es : TRUE
                  IN  <<e[2]>> \o Unescape(text, p + Len(e[1]))

\* text is sanitizeHtml of a trimmed input that is not empty
SanitizedOnce(text) ==
    LET raw == Unescape(text, 1)
    IN  /\ raw # <<>>
        /\ Trim(raw) = raw
        /\ sanitizeHtml(raw) = text

\* C23: the text of every item of the list is sanitizeHtml applied once to a
\* trimmed input: none of the characters < > " ' / is in it and no entity in
\* it is escaped twice, also after startEditing has loaded a sanitized text
\* into the edit buffer and saveEdit has handled it.
C23_StoredTextSanitizedOnce ==
    \A i \in 1..Len(items) :
        /\ SanitizedOnce(items[i].text)
        /\ \A p \in 1..Len(items[i].text) : items[i].text[p] \notin RawSpecials
        /\ ~DoubleEscaped(items[i].text)

\* saveEdit has rejected an edit buffer that holds the text of the edited
\* item, entities included, as startEditing fills it
C23_Witness ==
    /\ last.op = "saveEdit"
    /\ last.outcome = "REJECTED"
    /\ \E i \in 1..Len(items) :
          /\ items[i].id = last.id
          /\ items[i].text = EntLt \o <<"b">> \o EntGt
          /\ editingText = items[i].text

=============================================================================
